---- MODULE Spec2Model ----
(***************************************************************************)
(* A model of the resolvedb-go client: the label codec, the in-memory      *)
(* cache and the client orchestrator (query-name construction, security    *)
(* checks, retry loop, cache population and invalidation).                  *)
(*                                                                         *)
(* Strings are sequences of one-character strings, so that lower-casing,   *)
(* trimming, truncation, joining on "." and splitting are computed as the   *)
(* code computes them.  Time is a natural number of clock units.            *)
(***************************************************************************)
EXTENDS Integers, Sequences, FiniteSets, TLC

VARIABLES
    labelIn,     \* sanitizeLabel: the argument of the last call
    labelOut,    \* sanitizeLabel: the result of the last call
    entries,     \* memoryCache.entries: normalized key -> cacheEntry
    now,         \* the clock read by time.Now()
    cacheOp,     \* cache driver: the last cache call and what it returned
    lastSet,     \* cache driver: per normalized key, the last Set still in force
    getter,      \* cache driver: per goroutine, how far its memoryCache.Get has come
    config,      \* Client.config (clientConfig)
    tEncrypted,  \* Client.transport.IsEncrypted()
    pc,          \* client: "idle", "query" (about to call fn), "backoff", "returned"
    call,        \* client: the call in flight (operation, arguments, query name)
    attempt,     \* retryer.attempt of the call in flight
    nQueries,    \* transport.Query calls made by the current / last call
    lastSent,    \* the last transport.Request handed to transport.Query (with the
                 \* options of the call it belongs to and the transport's answer)
    ret,         \* what the last client call returned
    ctxDone,     \* the context of the current call is cancelled (ctx.Done() is ready)
    waitRace,    \* in retryer.Wait both cases of the select can be ready
    backoffs,    \* the backoffs NextBackoff computed for the call, before jitter
    fnErr,       \* the error of the last invocation of fn by doWithRetry ("nil": none)
    members,     \* Multi.transports: per member, what its IsEncrypted reports
    multiOut,    \* Multi: the last call made on it and what it returned
    counter,     \* EncryptionContext.counter
    nonces,      \* the nonces of the ciphertexts Encrypt has returned, as a bag
    encOut,      \* EncryptionContext.Encrypt: what the last call returned
    dnsIn,       \* parseDNSResponse: the argument of the last call
    dnsOut,      \* parseDNSResponse: the result of the last call
    nbaIn,       \* ValidateNBA: the arguments of the last call
    nbaOut,      \* ValidateNBA: the result of the last call
    callers,     \* the goroutines that share one Client: where each one is in its call
    hist,        \* the order of the queries and returns of those goroutines
    libIn,       \* a function without state: the arguments of the last call
    libOut       \* a function without state: the result of the last call

labelVars  == <<labelIn, labelOut>>
cacheVars  == <<entries, now>>
driverVars == <<cacheOp, lastSet, getter>>
retryVars  == <<ctxDone, waitRace, backoffs, fnErr>>
clientVars == <<config, tEncrypted, pc, call, attempt, nQueries, lastSent, ret, retryVars>>
multiVars  == <<members, multiOut>>
nonceVars  == <<counter, nonces, encOut>>
dnsVars    == <<dnsIn, dnsOut>>
nbaVars    == <<nbaIn, nbaOut>>
concVars   == <<callers, hist>>
pureVars   == <<libIn, libOut>>
libVars    == <<multiVars, nonceVars, dnsVars, nbaVars, concVars, pureVars>>
vars == <<labelIn, labelOut, entries, now, cacheOp, lastSet, getter,
          config, tEncrypted, pc, call, attempt, nQueries, lastSent, ret,
          ctxDone, waitRace, backoffs, fnErr,
          members, multiOut, counter, nonces, encOut, dnsIn, dnsOut, nbaIn, nbaOut,
          callers, hist, libIn, libOut>>

----------------------------------------------------------------------------
(* Strings *)

Upper == <<"A","B","C","D","E","F","G","H","I","J","K","L","M",
           "N","O","P","Q","R","S","T","U","V","W","X","Y","Z">>
Lower == <<"a","b","c","d","e","f","g","h","i","j","k","l","m",
           "n","o","p","q","r","s","t","u","v","w","x","y","z">>
Digits == <<"0","1","2","3","4","5","6","7","8","9">>

Range(f) == {f[i] : i \in DOMAIN f}

LowerSet == Range(Lower)
DigitSet == Range(Digits)

\* strings.ToLower on one (ASCII) character
ToLowerChar(c) ==
    IF \E i \in 1..26 : Upper[i] = c
    THEN Lower[CHOOSE i \in 1..26 : Upper[i] = c]
    ELSE c

\* strings.ToLower
ToLower(s) == [i \in 1..Len(s) |-> ToLowerChar(s[i])]

\* n copies of the character c
Rep(c, n) == [i \in 1..n |-> c]

\* strings.Trim(s, "-")
TrimDash(s) ==
    LET keep == {i \in 1..Len(s) : s[i] # "-"}
    IN  IF keep = {} THEN <<>>
        ELSE LET lo == CHOOSE i \in keep : \A j \in keep : i <= j
                 hi == CHOOSE i \in keep : \A j \in keep : j <= i
             IN  SubSeq(s, lo, hi)

\* s contains t as a substring (strings.Contains)
Contains(s, t) ==
    \E i \in 0..(Len(s) - Len(t)) : SubSeq(s, i + 1, i + Len(t)) = t

\* strings.HasPrefix
HasPrefix(s, p) == Len(s) >= Len(p) /\ SubSeq(s, 1, Len(p)) = p

----------------------------------------------------------------------------
(* Label codec: interfaces.go *)

MaxLabelLen == 63

PrefixBase64 == <<"b","6","4","-">>
PrefixAuth == <<"a","u","t","h","-">>
PrefixBDT == <<"b","d","t","-">>
PrefixCTP == <<"c","t","p","-">>
PrefixSig == <<"s","i","g","-">>

LabelChar(c) == c \in LowerSet \/ c \in DigitSet \/ c = "-"

\* the loop of sanitizeLabel: keep [a-z0-9-], fold '_' and ' ' to '-', drop the rest
FoldChars(s) ==
    LET kept == SelectSeq(s, LAMBDA c : LabelChar(c) \/ c = "_" \/ c = " ")
    IN  [i \in 1..Len(kept) |-> IF LabelChar(kept[i]) THEN kept[i] ELSE "-"]

\* truncation at the maximum label length
Truncate(label) ==
    IF Len(label) > MaxLabelLen THEN SubSeq(label, 1, MaxLabelLen) ELSE label

sanitizeLabel(s) == Truncate(TrimDash(FoldChars(ToLower(s))))

\* a DNS label: 1..63 octets of [a-z0-9-], not starting or ending with '-'
ValidLabel(l) ==
    /\ Len(l) >= 1
    /\ Len(l) <= MaxLabelLen
    /\ \A i \in 1..Len(l) : LabelChar(l[i])
    /\ l[1] # "-"
    /\ l[Len(l)] # "-"

----------------------------------------------------------------------------
(* Inputs of the label specification: up to three runs of one character;   *)
(* the middle run may be as long as a whole label.                          *)

MaxRun == 2
LabelAlphabet == {"a", "B", "7", "-", "_", "!"}
ShortRuns == {Rep(c, n) : c \in LabelAlphabet, n \in 0..MaxRun}
LongRuns == {Rep(c, n) : c \in LabelAlphabet, n \in {MaxLabelLen - 1, MaxLabelLen}}
LabelInputs ==
    {a \o b \o c : a \in ShortRuns, b \in ShortRuns \cup LongRuns, c \in ShortRuns}

NotCalled == <<"(", "n", "o", "t", " ", "c", "a", "l", "l", "e", "d", ")">>

InitIdleLabel == labelIn = <<>> /\ labelOut = NotCalled

\* sanitizeLabel is applied to the input drawn by the initial state
Sanitize ==
    /\ labelOut = NotCalled
    /\ labelOut' = sanitizeLabel(labelIn)
    /\ UNCHANGED labelIn

----------------------------------------------------------------------------
(* Responses: response.go.  A parsed Response is a record of the fields    *)
(* the client reads.                                                        *)

Response(status, ttl, hasData) ==
    [Version |-> "rdb1", Status |-> status, TTL |-> ttl, HasData |-> hasData, Chunks |-> 0]

NoResponse == [Version |-> "", Status |-> "", TTL |-> 0, HasData |-> FALSE, Chunks |-> 0]

\* Response.IsSuccess
IsSuccess(r) == r.Status = "ok" \/ r.Status = "success"

----------------------------------------------------------------------------
(* Cache: memoryCache.  entries is a function from normalized keys to      *)
(* [response, expiresAt].                                                   *)

\* keys stored as they are given
normalizeKeyIdentity(key) == key

\* normalizeKey
normalizeKey(key) == ToLower(key)

\* time.Now().After(entry.expiresAt) at clock value t
Expired(e, t) == t > e.expiresAt

Without(ents, k) == [x \in DOMAIN ents \ {k} |-> ents[x]]

With(ents, k, e) == [x \in DOMAIN ents \cup {k} |-> IF x = k THEN e ELSE ents[x]]

\* memoryCache.Delete
CacheDelete(ents, key) == Without(ents, normalizeKey(key))

\* memoryCache.Get: whether it returns (entry.response, true)
CacheHit(ents, key, t) ==
    /\ normalizeKey(key) \in DOMAIN ents
    /\ ~Expired(ents[normalizeKey(key)], t)

\* memoryCache.Get: the entries it leaves (an expired entry is deleted)
CacheAfterGet(ents, key, t) ==
    IF normalizeKey(key) \in DOMAIN ents /\ Expired(ents[normalizeKey(key)], t)
    THEN CacheDelete(ents, key)
    ELSE ents

\* memoryCache.evictExpired
evictExpired(ents, t) ==
    [x \in {k \in DOMAIN ents : ~Expired(ents[k], t)} |-> ents[x]]

\* memoryCache.Set: the ttl the entry is stored with
EffectiveTTL(ttl, resp, defaultTTL) ==
    LET t1 == IF ttl = 0 THEN defaultTTL ELSE ttl
    IN  IF resp.TTL > 0 /\ resp.TTL < t1 THEN resp.TTL ELSE t1

\* memoryCache.Set
CacheSet(ents, key, resp, ttl, t, maxEntries, defaultTTL) ==
    LET swept == IF maxEntries > 0 /\ Cardinality(DOMAIN ents) >= maxEntries
                 THEN evictExpired(ents, t)
                 ELSE ents
    IN  With(swept, normalizeKey(key),
             [response |-> resp, expiresAt |-> t + EffectiveTTL(ttl, resp, defaultTTL)])

EmptyMap == [x \in {} |-> 0]

\* memoryCache.Clear
CacheClear == EmptyMap

----------------------------------------------------------------------------
(* Configuration: options.go (defaultConfig and the With... options).      *)
(* Durations are counted in clock units; the configured values below are   *)
(* the model's choices for WithCache and WithRetry.                         *)

MaxTime == 3          \* the clock runs from 0 to MaxTime
DefaultTTL == 2       \* CacheConfig.DefaultTTL, in clock units
MaxEntries == 2       \* CacheConfig.MaxEntries
MaxRetries == 2       \* RetryConfig.MaxRetries
InitialBackoff == 1   \* RetryConfig.InitialBackoff, in clock units
MaxBackoff == 3       \* RetryConfig.MaxBackoff, in clock units

defaultConfig ==
    [apiKey |-> <<>>, namespace |-> <<>>,
     version |-> <<"v","1">>, tld |-> <<"n","e","t">>,
     enforceSecurity |-> TRUE, hasEncryptionKey |-> FALSE,
     maxRetries |-> MaxRetries,
     initialBackoff |-> InitialBackoff, maxBackoff |-> MaxBackoff,
     multiplier |-> <<2, 1>>,     \* RetryConfig.Multiplier as numerator, denominator
     cacheEnabled |-> TRUE, maxEntries |-> MaxEntries, defaultTTL |-> DefaultTTL]

EmptyRC == [skipCache |-> FALSE, encrypt |-> FALSE,
            bdtToken |-> <<>>, ctpToken |-> <<>>, nbaToken |-> <<>>]

IdleCall == [op |-> <<>>, via |-> "none", resource |-> <<>>, key |-> <<>>,
             rc |-> EmptyRC, Name |-> <<>>, before |-> EmptyMap]
NoRequest == [Name |-> <<>>, encrypted |-> TRUE, op |-> <<>>, via |-> "none", rc |-> EmptyRC,
              answer |-> [kind |-> "none"]]
NoReturn == [op |-> "none", err |-> "nil", response |-> NoResponse,
             fromCache |-> FALSE, stored |-> FALSE, cacheChanged |-> FALSE,
             resource |-> <<>>, key |-> <<>>, dataOK |-> TRUE, rc |-> EmptyRC]

InitIdleCalls ==
    /\ pc = "idle"
    /\ call = IdleCall
    /\ attempt = 0
    /\ nQueries = 0
    /\ lastSent = NoRequest
    /\ ret = NoReturn
    /\ ctxDone = FALSE
    /\ waitRace = FALSE
    /\ backoffs = <<>>
    /\ fnErr = "nil"

InitIdleClient == tEncrypted = TRUE /\ InitIdleCalls

\* nothing was called yet on a Multi, an EncryptionContext, the DNS parser
\* or the NBA validator
NotCalledYet == [op |-> "none"]
InitIdleMulti == members = <<>> /\ multiOut = NotCalledYet
NoEncrypt == [op |-> "none", calls |-> 0]
InitIdleNonce == counter = 0 /\ nonces = <<>> /\ encOut = NoEncrypt
InitIdleDNS == dnsIn = <<>> /\ dnsOut = NotCalledYet
InitIdleNBA == nbaIn = NotCalledYet /\ nbaOut = NotCalledYet
InitIdleConc == callers = <<>> /\ hist = NotCalledYet
InitIdlePure == libIn = NotCalledYet /\ libOut = NotCalledYet
InitIdleLib ==
    /\ InitIdleMulti /\ InitIdleNonce /\ InitIdleDNS /\ InitIdleNBA
    /\ InitIdleConc /\ InitIdlePure

\* the goroutines that call memoryCache.Get concurrently
Getters == {"g1", "g2"}
NoEntry == [response |-> NoResponse, expiresAt |-> 0]
NoSet == [response |-> NoResponse, until |-> 0]
IdleGetter == [pc |-> "idle", key |-> <<>>, ok |-> FALSE, entry |-> NoEntry,
               set |-> FALSE, after |-> NoSet]

InitIdleDriver ==
    /\ cacheOp = [op |-> "none"]
    /\ lastSet = EmptyMap
    /\ getter = [g \in Getters |-> IdleGetter]

\* the clock advances
Tick ==
    /\ now < MaxTime
    /\ now' = now + 1

----------------------------------------------------------------------------
(* Encodings: interfaces.go, client.go                                      *)

B64Alphabet == Upper \o Lower \o Digits \o <<"-", "_">>

Pow2(n) == IF n = 4 THEN 16 ELSE IF n = 6 THEN 64 ELSE IF n = 8 THEN 256 ELSE 1024

\* encodeBase64: base64.RawURLEncoding of a sequence of bytes (0..255)
encodeBase64(bytes) ==
    LET n == Len(bytes)
        sextet(j) ==
            LET off == (j - 1) * 6
                i == (off \div 8) + 1
                r == off % 8
                w == bytes[i] * 256 + (IF i + 1 <= n THEN bytes[i + 1] ELSE 0)
            IN  (w \div Pow2(10 - r)) % 64
    IN  [j \in 1..((n * 4 + 2) \div 3) |-> B64Alphabet[sextet(j) + 1]]

RECURSIVE Dec(_)
\* fmt's %d of a non-negative integer
Dec(n) == IF n < 10 THEN <<Digits[n + 1]>> ELSE Dec(n \div 10) \o <<Digits[(n % 10) + 1]>>

\* signature[:16]: the bytes of the HMAC the token keeps
SigBytes == 16

SigHexLen == 2 * SigBytes

\* hex.EncodeToString(signature[:16]) of an HMAC-SHA256: the digest is not
\* computed; it is any string of SigHexLen lower-case hex digits
Digests == {Rep("0", SigHexLen), Rep("f", SigHexLen)}

\* Client.generateAuthToken, with the digest sig and the clock value t
generateAuthToken(sig, t) == PrefixAuth \o sig \o <<"-", "t", "-">> \o Dec(t)

RECURSIVE Join(_)
\* strings.Join(parts, ".")
Join(parts) ==
    IF Len(parts) = 0 THEN <<>>
    ELSE IF Len(parts) = 1 THEN parts[1]
    ELSE parts[1] \o <<".">> \o Join(Tail(parts))

\* strings.Split(name, ".")
Split(name) ==
    LET dots == {i \in 1..Len(name) : name[i] = "."}
        n == Cardinality(dots)
        dot(k) == IF k = 0 THEN 0
                  ELSE IF k = n + 1 THEN Len(name) + 1
                  ELSE CHOOSE i \in dots : Cardinality({j \in dots : j < i}) = k - 1
    IN  [k \in 1..(n + 1) |-> SubSeq(name, dot(k - 1) + 1, dot(k) - 1)]

\* insertAfter
insertAfter(slice, index, value) ==
    SubSeq(slice, 1, index + 1) \o <<value>> \o SubSeq(slice, index + 2, Len(slice))

OpGet == <<"g","e","t">>
OpPut == <<"p","u","t">>
OpDelete == <<"d","e","l","e","t","e">>
OpList == <<"l","i","s","t">>
Public == <<"p","u","b","l","i","c">>
Resolvedb == <<"r","e","s","o","l","v","e","d","b">>

\* the namespace label of both builders
NamespaceLabel(cfg) ==
    IF cfg.namespace # <<>> THEN sanitizeLabel(cfg.namespace) ELSE Public

\* the auth label goes right after parts[0] (both builders)
\* the auth label made of the key itself instead of its HMAC
WithAuthRawKey(cfg, parts, authToken) ==
    IF cfg.apiKey # <<>> THEN <<parts[1], PrefixAuth \o cfg.apiKey>> \o Tail(parts) ELSE parts

WithAuth(cfg, parts, authToken) ==
    IF cfg.apiKey # <<>> THEN <<parts[1], authToken>> \o Tail(parts) ELSE parts

\* the security tokens of buildQueryName
WithTokens(parts, rc) ==
    LET p1 == IF rc.bdtToken # <<>> THEN insertAfter(parts, 0, rc.bdtToken) ELSE parts
        p2 == IF rc.ctpToken # <<>> THEN insertAfter(p1, 0, rc.ctpToken) ELSE p1
    IN  IF rc.nbaToken # <<>> THEN insertAfter(p2, 0, rc.nbaToken) ELSE p2

\* Client.buildQueryName: the parts it joins
QueryParts(cfg, operation, resource, key, rc, authToken) ==
    LET base == <<operation>>
                \o (IF key # <<>> THEN <<sanitizeLabel(key)>> ELSE <<>>)
                \o <<sanitizeLabel(resource), NamespaceLabel(cfg), cfg.version,
                      Resolvedb, cfg.tld>>
    IN  WithTokens(WithAuth(cfg, base, authToken), rc)

\* Client.buildQueryName
buildQueryName(cfg, operation, resource, key, rc, authToken) ==
    Join(QueryParts(cfg, operation, resource, key, rc, authToken))

\* Client.buildQueryNameWithData: the parts it joins
DataQueryParts(cfg, operation, resource, key, data, authToken) ==
    WithAuth(cfg,
             <<operation, PrefixBase64 \o data, sanitizeLabel(key), sanitizeLabel(resource),
               NamespaceLabel(cfg), cfg.version, Resolvedb, cfg.tld>>,
             authToken)

\* Client.buildQueryNameWithData
buildQueryNameWithData(cfg, operation, resource, key, data, authToken) ==
    Join(DataQueryParts(cfg, operation, resource, key, data, authToken))

\* buildCacheKey
buildCacheKey(operation, resource, key, namespace, version) ==
    normalizeKey(Join(<<operation, resource, key, namespace, version>>))

----------------------------------------------------------------------------
(* The cache driven directly: Set, Get, Delete and Clear on a memoryCache   *)
(* with the clock advancing in between.  lastSet remembers, per normalized *)
(* key, the last Set not yet followed by a Delete or Clear of that key.     *)
(* cacheOp.asLower tells whether the call did what the same call with the  *)
(* key in lower case would have done: same result, same entries left.      *)

CacheKeys == {<<"f","o","o">>, <<"F","O","O">>, <<"b","a","r">>}
CacheResponses == {Response("ok", 0, TRUE), Response("ok", 1, FALSE)}
CacheTTLs == {-1, 0, 1, DefaultTTL + 1}

DoCacheSet ==
    \E k \in CacheKeys, r \in CacheResponses, ttl \in CacheTTLs :
        /\ entries' = CacheSet(entries, k, r, ttl, now, config.maxEntries, config.defaultTTL)
        /\ cacheOp' = [op |-> "set", key |-> k,
                       asLower |-> CacheSet(entries, k, r, ttl, now,
                                            config.maxEntries, config.defaultTTL)
                                   = CacheSet(entries, ToLower(k), r, ttl, now,
                                              config.maxEntries, config.defaultTTL)]
        /\ lastSet' = With(lastSet, normalizeKey(k),
                           [response |-> r,
                            until |-> now + EffectiveTTL(ttl, r, config.defaultTTL)])
        /\ UNCHANGED <<now, getter>>

DoCacheGet ==
    \E k \in CacheKeys :
        /\ cacheOp' = [op |-> "get", key |-> k,
                       hit |-> CacheHit(entries, k, now),
                       response |-> IF CacheHit(entries, k, now)
                                    THEN entries[normalizeKey(k)].response
                                    ELSE NoResponse,
                       asLower |-> /\ CacheHit(entries, k, now)
                                      = CacheHit(entries, ToLower(k), now)
                                   /\ CacheHit(entries, k, now)
                                      => entries[normalizeKey(k)].response
                                         = entries[normalizeKey(ToLower(k))].response
                                   /\ CacheAfterGet(entries, k, now)
                                      = CacheAfterGet(entries, ToLower(k), now)]
        /\ entries' = CacheAfterGet(entries, k, now)
        /\ UNCHANGED <<now, lastSet, getter>>

DoCacheDelete ==
    \E k \in CacheKeys :
        /\ entries' = CacheDelete(entries, k)
        /\ cacheOp' = [op |-> "delete", key |-> k,
                       asLower |-> CacheDelete(entries, k) = CacheDelete(entries, ToLower(k))]
        /\ lastSet' = Without(lastSet, normalizeKey(k))
        /\ UNCHANGED <<now, getter>>

DoCacheClear ==
    /\ entries' = CacheClear
    /\ cacheOp' = [op |-> "clear"]
    /\ lastSet' = EmptyMap
    /\ UNCHANGED <<now, getter>>

\* time passes between two cache calls
CacheTick ==
    /\ Tick
    /\ cacheOp' = [op |-> "none"]
    /\ UNCHANGED <<entries, lastSet, getter>>

InitCache ==
    /\ InitIdleLabel
    /\ InitIdleClient
    /\ InitIdleDriver
    /\ InitIdleLib
    /\ entries = EmptyMap
    /\ now = 0
    /\ config \in {[defaultConfig EXCEPT !.maxEntries = m] : m \in {0, MaxEntries - 1, MaxEntries}}

NextCache ==
    \/ (DoCacheSet /\ UNCHANGED <<labelVars, libVars, clientVars>>)
    \/ (DoCacheGet /\ UNCHANGED <<labelVars, libVars, clientVars>>)
    \/ (DoCacheDelete /\ UNCHANGED <<labelVars, libVars, clientVars>>)
    \/ (DoCacheClear /\ UNCHANGED <<labelVars, libVars, clientVars>>)
    \/ (CacheTick /\ UNCHANGED <<labelVars, libVars, clientVars>>)

SpecCache == InitCache /\ [][NextCache]_vars

----------------------------------------------------------------------------
(* The client: client.go.  One caller issues calls one after the other; a  *)
(* call that reaches doWithRetry stays in flight (pc = "query" before each  *)
(* invocation of fn, pc = "backoff" inside retryer.Wait) until it returns.  *)

Resources == {<<"w","x">>}
Keys == {<<"q">>, <<"!", "?">>}
BDTToken == PrefixBDT \o Rep("d", 32)
CTPToken == PrefixCTP \o <<"Z","m","9","v">>
NBAToken == PrefixSig \o Rep("e", 32) \o <<"-","t","-","1">>
ReqConfigs ==
    [skipCache : BOOLEAN, encrypt : {FALSE},
     bdtToken : {<<>>, BDTToken}, ctpToken : {<<>>, CTPToken}, nbaToken : {<<>>, NBAToken}]

\* WithEncrypt appended to the options
WithEncrypt(rc) == [rc EXCEPT !.encrypt = TRUE]

\* the data argument of a write: its JSON text as bytes, or a value
\* json.Marshal rejects
SmallJSON == <<123, 125>>
LargeJSON == <<123>> \o Rep(32, 46) \o <<125>>
Payloads == {[ok |-> TRUE, json |-> SmallJSON], [ok |-> TRUE, json |-> LargeJSON],
             [ok |-> FALSE, json |-> <<>>]}

\* encodeJSON of a value json.Marshal accepts
encodeJSON(data) == encodeBase64(data.json)

AESGCMNonceSize == 12
AESGCMTagSize == 16

\* security.Encrypt: nonce || ciphertext || tag; the bytes are not computed,
\* they are any bytes of that length
Ciphertexts(plaintext) ==
    {Rep(b, AESGCMNonceSize + Len(plaintext) + AESGCMTagSize) : b \in {0, 255}}

\* what transport.Query can answer: an error, or a TXT payload given by the
\* fields ParseResponse reads.  The code of an error is the code of the
\* *Error it wraps, "context" when it wraps ctx.Err(), "" otherwise
TransportError(code) == [kind |-> "error", code |-> code]
Text(v, status, ttl, hasData, dnsTTL) ==
    [kind |-> "text", v |-> v, s |-> status, ttl |-> ttl, d |-> hasData, dnsTTL |-> dnsTTL,
     decodes |-> TRUE, chunks |-> 0]
\* a TXT payload whose d field does not decode in the encoding it names
Undecodable(ans) == [ans EXCEPT !.decodes = FALSE]
\* a TXT payload that announces n chunks (chunks=n)
Chunked(ans, n) == [ans EXCEPT !.chunks = n]
NoAnswer == [kind |-> "none"]
Answers ==
    {TransportError("E010"), TransportError(""),
     Text("", "ok", 1, TRUE, 0),
     Text("rdb1", "ok", -1, TRUE, 0),
     Text("rdb1", "ok", 0, TRUE, 0),
     Text("rdb1", "ok", 0, TRUE, 1),
     Text("rdb1", "ok", 1, FALSE, 0),
     Text("rdb1", "ok", DefaultTTL + 1, TRUE, 0),
     Text("rdb1", "E004", 0, FALSE, 0),
     Text("rdb1", "E010", 0, FALSE, 0),
     Undecodable(Text("", "ok", 1, TRUE, 0)),
     Chunked(Text("rdb1", "ok", 1, TRUE, 0), MaxRetries + 2)}

\* errors.go: a protocol error is known by its code (Error.Is compares codes);
\* the SDK's own errors by their names
ErrUnauthorized == "E002"
ErrNotFound == "E004"
ErrEncryptedTransportRequired == "ErrEncryptedTransportRequired"
ErrInvalidResponse == "ErrInvalidResponse"

\* a ParseResponse that does not require the version field
ParseErrorVersionOptional(ans) ==
    IF ans.d /\ ~ans.decodes THEN "decode data" ELSE "nil"

\* ParseResponse: the error it returns.  A d field that fails to decode
\* ends the parse where it stands; the version is looked at after the fields
ParseError(ans) ==
    IF ans.d /\ ~ans.decodes THEN "decode data"
    ELSE IF ans.v = "" THEN ErrInvalidResponse
    ELSE "nil"

\* ParseResponse followed by executeQuery's TTL override
ParsedResponse(ans) ==
    [Version |-> ans.v, Status |-> ans.s,
     TTL |-> IF ans.ttl = 0 /\ ans.dnsTTL > 0 THEN ans.dnsTTL ELSE ans.ttl,
     HasData |-> ans.d, Chunks |-> ans.chunks]

\* Response.ToError: "nil" or the code of the error
ToError(r) ==
    IF IsSuccess(r) THEN "nil"
    ELSE IF r.Status = "E000" THEN "nil"
    ELSE IF r.Status = "notfound" THEN ErrNotFound
    ELSE r.Status

\* Response.Unmarshal into a fitting destination
Unmarshal(r) == IF ~r.HasData THEN ErrNotFound ELSE "nil"

\* what fn (executeQuery) returns as its error for an answer of the transport
FnError(ans) ==
    IF ans.kind = "error"
    THEN (IF ans.code = "" THEN "transport" ELSE ans.code)
    ELSE ParseError(ans)

\* IsRetryable: the error wraps an *Error whose code is retryable
IsRetryable(err) == err \in {"E010", "E012", "E013"}

\* a ShouldRetry that never counts the retries made
ShouldRetryUncounted(att, cfg, retryable) == retryable

\* retryer.ShouldRetry
ShouldRetry(att, cfg, retryable) ==
    IF att >= cfg.maxRetries THEN FALSE ELSE retryable

RECURSIVE Pow(_, _)
Pow(b, n) == IF n = 0 THEN 1 ELSE b * Pow(b, n - 1)

\* a NextBackoff that does not apply the maximum
NextBackoffUncapped(cfg, att) ==
    <<cfg.initialBackoff * Pow(cfg.multiplier[1], att - 1), Pow(cfg.multiplier[2], att - 1)>>

\* retryer.NextBackoff before jitter, for the attempt number it has just
\* incremented to; the value is a fraction <<numerator, denominator>>
NextBackoff(cfg, att) ==
    LET n == cfg.initialBackoff * Pow(cfg.multiplier[1], att - 1)
        d == Pow(cfg.multiplier[2], att - 1)
    IN  IF n > cfg.maxBackoff * d THEN <<cfg.maxBackoff, 1>> ELSE <<n, d>>

\* the first checks of Set and of Delete: "nil" or the error returned
\* Set and Delete without the API key check
WriteRefusalNoKeyCheck(cfg, encrypted) ==
    IF cfg.enforceSecurity /\ ~encrypted THEN ErrEncryptedTransportRequired
    ELSE "nil"

\* Set and Delete without the transport check
WriteRefusalNoTransportCheck(cfg, encrypted) ==
    IF cfg.apiKey = <<>> THEN ErrUnauthorized ELSE "nil"

WriteRefusal(cfg, encrypted) ==
    IF cfg.apiKey = <<>> THEN ErrUnauthorized
    ELSE IF cfg.enforceSecurity /\ ~encrypted THEN ErrEncryptedTransportRequired
    ELSE "nil"

\* the checks of SetEncrypted before its query is built
SetEncryptedRefusal(cfg, encrypted, data) ==
    IF ~cfg.hasEncryptionKey THEN "encryption key not configured"
    ELSE IF ~data.ok THEN "encode data"
    ELSE IF cfg.enforceSecurity /\ ~encrypted THEN ErrEncryptedTransportRequired
    ELSE "nil"

\* Client.cache: the memoryCache, or the noopCache when caching is disabled
ClientCacheHit(cfg, ents, key, t) == cfg.cacheEnabled /\ CacheHit(ents, key, t)
ClientCacheAfterGet(cfg, ents, key, t) ==
    IF cfg.cacheEnabled THEN CacheAfterGet(ents, key, t) ELSE ents
ClientCacheSet(cfg, ents, key, resp, ttl, t) ==
    IF cfg.cacheEnabled
    THEN CacheSet(ents, key, resp, ttl, t, cfg.maxEntries, cfg.defaultTTL)
    ELSE ents
\* a cache whose Delete removes nothing
ClientCacheDeleteNothing(cfg, ents, key) == ents

ClientCacheDelete(cfg, ents, key) ==
    IF cfg.cacheEnabled THEN CacheDelete(ents, key) ELSE ents

\* the cache key of the get fingerprint of a call
GetCacheKey(cfg, resource, key) ==
    buildCacheKey(OpGet, resource, key, cfg.namespace, cfg.version)

\* every response GetRaw receives is cached unless the cache is skipped
ShouldStoreAnyResponse(resp, rc) == ~rc.skipCache

\* GetRaw: whether the response it received goes into the cache
\* a GetRaw that stores successful responses whatever the options say
ShouldStoreDespiteSkip(resp, rc) == IsSuccess(resp)

ShouldStore(resp, rc) == IsSuccess(resp) /\ ~rc.skipCache

\* a Set or Delete that invalidates whatever status the response has
InvalidatesWhateverStatus(resp) == TRUE

\* Set and Delete reach cache.Delete only when resp.ToError() is nil
Invalidates(resp) == ToError(resp) = "nil"

\* the ttl GetRaw passes to cache.Set
StoreTTL(resp) == resp.TTL

\* what a read returns to its caller once it holds the response:
\* GetRaw nothing more, Get the error of Unmarshal, GetEncrypted that of
\* decrypt (which fails on data that is no ciphertext) and then Unmarshal
ReadError(via, resp, decrypts) ==
    IF via = "GetRaw" THEN "nil"
    ELSE IF via = "Get" THEN Unmarshal(resp)
    ELSE IF ~resp.HasData \/ ~decrypts THEN "decrypt"
    ELSE "nil"

\* a call returns to its caller
Return(op, resource, key, err, resp, fromCache, stored, before, dataOK, rc) ==
    /\ ret' = [op |-> op, err |-> err, response |-> resp, fromCache |-> fromCache,
               stored |-> stored, cacheChanged |-> (entries' # before),
               resource |-> resource, key |-> key, dataOK |-> dataOK, rc |-> rc]
    /\ pc' = "returned"
    /\ call' = IdleCall
    /\ attempt' = 0

\* a call returns before doWithRetry: no query was made
ReturnEarly(op, resource, key, err, resp, fromCache, dataOK, rc) ==
    /\ Return(op, resource, key, err, resp, fromCache, FALSE, entries, dataOK, rc)
    /\ UNCHANGED <<nQueries, lastSent, retryVars>>

\* a call enters doWithRetry with its query name built
Dispatch(op, via, resource, key, rc, name) ==
    /\ pc' = "query"
    /\ call' = [op |-> op, via |-> via, resource |-> resource, key |-> key,
                rc |-> rc, Name |-> name, before |-> entries]
    /\ attempt' = 0
    /\ backoffs' = <<>>
    /\ fnErr' = "nil"
    /\ waitRace' = FALSE
    /\ UNCHANGED <<nQueries, lastSent, ret, ctxDone>>

\* Client.GetRaw, Client.Get and Client.GetEncrypted up to doWithRetry
GetCall(vias, resources, keys, rcs) ==
    \E via \in vias, resource \in resources, key \in keys, rc0 \in rcs, sig \in Digests :
        LET rc == IF via = "GetEncrypted" THEN WithEncrypt(rc0) ELSE rc0
            name == buildQueryName(config, OpGet, resource, key, rc,
                                   generateAuthToken(sig, now))
            ck == GetCacheKey(config, resource, key)
        IN  /\ pc = "idle"
            /\ UNCHANGED <<config, tEncrypted, now>>
            /\ IF via = "GetEncrypted" /\ ~config.hasEncryptionKey
               THEN /\ entries' = entries
                    /\ ReturnEarly(via, resource, key, "encryption key not configured",
                                   NoResponse, FALSE, TRUE, rc)
               ELSE IF ~rc.skipCache /\ ClientCacheHit(config, entries, ck, now)
               THEN /\ entries' = entries
                    /\ \E decrypts \in BOOLEAN :
                          ReturnEarly(via, resource, key,
                                      ReadError(via, entries[ck].response, decrypts),
                                      entries[ck].response, TRUE, TRUE, rc)
               ELSE /\ entries' = IF rc.skipCache THEN entries
                                  ELSE ClientCacheAfterGet(config, entries, ck, now)
                    /\ Dispatch(OpGet, via, resource, key, rc, name)

\* Client.List up to doWithRetry
ListCall(resources, rcs) ==
    \E resource \in resources, rc \in rcs, sig \in Digests :
        /\ pc = "idle"
        /\ UNCHANGED <<config, tEncrypted, now, entries>>
        /\ Dispatch(OpList, "List", resource, <<>>, rc,
                    buildQueryName(config, OpList, resource, <<>>, rc,
                                   generateAuthToken(sig, now)))

\* Client.Set up to doWithRetry
SetCall(resources, keys, rcs, payloads) ==
    \E resource \in resources, key \in keys, rc \in rcs, data \in payloads, sig \in Digests :
        /\ pc = "idle"
        /\ UNCHANGED <<config, tEncrypted, now, entries>>
        /\ IF WriteRefusal(config, tEncrypted) # "nil"
           THEN ReturnEarly("Set", resource, key, WriteRefusal(config, tEncrypted),
                            NoResponse, FALSE, data.ok, rc)
           ELSE IF ~data.ok
           THEN ReturnEarly("Set", resource, key, "encode data", NoResponse, FALSE,
                            data.ok, rc)
           ELSE Dispatch(OpPut, "Set", resource, key, rc,
                         buildQueryNameWithData(config, OpPut, resource, key,
                                                encodeJSON(data),
                                                generateAuthToken(sig, now)))

\* Client.Delete up to doWithRetry
DeleteCall(resources, keys, rcs) ==
    \E resource \in resources, key \in keys, rc \in rcs, sig \in Digests :
        /\ pc = "idle"
        /\ UNCHANGED <<config, tEncrypted, now, entries>>
        /\ IF WriteRefusal(config, tEncrypted) # "nil"
           THEN ReturnEarly("Delete", resource, key, WriteRefusal(config, tEncrypted),
                            NoResponse, FALSE, TRUE, rc)
           ELSE Dispatch(OpDelete, "Delete", resource, key, rc,
                         buildQueryName(config, OpDelete, resource, key, rc,
                                        generateAuthToken(sig, now)))

\* Client.SetEncrypted up to doWithRetry
SetEncryptedCall(resources, keys, rcs, payloads) ==
    \E resource \in resources, key \in keys, rc0 \in rcs, data \in payloads, sig \in Digests :
        /\ pc = "idle"
        /\ UNCHANGED <<config, tEncrypted, now, entries>>
        /\ IF SetEncryptedRefusal(config, tEncrypted, data) # "nil"
           THEN ReturnEarly("SetEncrypted", resource, key,
                            SetEncryptedRefusal(config, tEncrypted, data),
                            NoResponse, FALSE, data.ok, WithEncrypt(rc0))
           ELSE \E encrypted \in Ciphertexts(encodeJSON(data)) :
                    Dispatch(OpPut, "SetEncrypted", resource, key, WithEncrypt(rc0),
                             buildQueryNameWithData(config, OpPut, resource, key,
                                                    encodeBase64(encrypted),
                                                    generateAuthToken(sig, now)))

\* one turn of the loop of doWithRetry: fn (executeQuery) is called, its
\* query goes to the transport, and the call returns or goes to wait
Attempt(answers) ==
    \E ans \in answers, decrypts \in BOOLEAN :
        LET err == FnError(ans)
            retry == err # "nil" /\ ShouldRetry(attempt, config, IsRetryable(err))
            resp == ParsedResponse(ans)
            ck == GetCacheKey(config, call.resource, call.key)
            stored == ShouldStore(resp, call.rc)
        IN  /\ pc = "query"
            /\ (ans.kind = "error" /\ ans.code = "context") => ctxDone
            /\ UNCHANGED <<config, tEncrypted, now, ctxDone>>
            /\ fnErr' = err
            /\ IF retry
               THEN /\ backoffs' = Append(backoffs, NextBackoff(config, attempt + 1))
                    /\ waitRace' = (ctxDone /\ NextBackoff(config, attempt + 1)[1] <= 0)
               ELSE UNCHANGED <<backoffs, waitRace>>
            /\ lastSent' = [Name |-> call.Name, encrypted |-> tEncrypted, op |-> call.op,
                            via |-> call.via, rc |-> call.rc, answer |-> ans]
            /\ nQueries' = nQueries + 1
            /\ IF err # "nil"
               THEN IF retry
                    THEN /\ pc' = "backoff"
                         /\ attempt' = attempt + 1
                         /\ UNCHANGED <<call, entries, ret>>
                    ELSE /\ entries' = entries
                         /\ Return(call.via, call.resource, call.key, err, NoResponse,
                                   FALSE, FALSE, call.before, TRUE, call.rc)
               ELSE IF call.op = OpGet
               THEN /\ entries' = IF stored
                                  THEN ClientCacheSet(config, entries, ck, resp,
                                                      StoreTTL(resp), now)
                                  ELSE entries
                    /\ Return(call.via, call.resource, call.key,
                              ReadError(call.via, resp, decrypts), resp,
                              FALSE, stored, call.before, TRUE, call.rc)
               ELSE IF call.via \in {"Set", "Delete"}
               THEN /\ entries' = IF Invalidates(resp)
                                  THEN ClientCacheDelete(config, entries, ck)
                                  ELSE entries
                    /\ Return(call.via, call.resource, call.key, ToError(resp), resp,
                              FALSE, FALSE, call.before, TRUE, call.rc)
               ELSE /\ entries' = entries
                    /\ Return(call.via, call.resource, call.key,
                              IF ToError(resp) # "nil" THEN ToError(resp)
                              ELSE IF call.via = "List" THEN Unmarshal(resp)
                              ELSE "nil",
                              resp, FALSE, FALSE, call.before, TRUE, call.rc)

\* retryer.Wait returns nil: the backoff has elapsed.  With the context
\* done the select takes the timer only if both cases are ready
BackoffDone ==
    /\ pc = "backoff"
    /\ ~ctxDone \/ waitRace
    /\ pc' = "query"
    /\ UNCHANGED <<config, tEncrypted, now, entries, call, attempt, nQueries, lastSent, ret,
                   retryVars>>

\* retryer.Wait returns ctx.Err(), and doWithRetry returns it
BackoffCancelled ==
    /\ pc = "backoff"
    /\ ctxDone
    /\ entries' = entries
    /\ Return(call.via, call.resource, call.key, "context", NoResponse,
              FALSE, FALSE, call.before, TRUE, call.rc)
    /\ UNCHANGED <<config, tEncrypted, now, nQueries, lastSent, retryVars>>

\* the caller cancels the context (or its deadline passes): before the call,
\* while a query is in flight or during the backoff sleep
Cancel ==
    /\ pc \in {"idle", "query", "backoff"}
    /\ ~ctxDone
    /\ ctxDone' = TRUE
    /\ waitRace' = (pc = "backoff")
    /\ UNCHANGED <<config, tEncrypted, now, entries, pc, call, attempt, nQueries, lastSent,
                   ret, backoffs, fnErr>>

\* the caller has taken the result of its call; the next call is a new one
Ack ==
    /\ pc = "returned"
    /\ pc' = "idle"
    /\ ret' = NoReturn
    /\ lastSent' = NoRequest
    /\ nQueries' = 0
    /\ ctxDone' = FALSE
    /\ waitRace' = FALSE
    /\ backoffs' = <<>>
    /\ fnErr' = "nil"
    /\ UNCHANGED <<config, tEncrypted, now, entries, call, attempt>>

\* time passes while the client is idle, in flight or waiting
ClientTick ==
    /\ pc # "returned"
    /\ Tick
    /\ UNCHANGED <<entries, clientVars>>

-----------------------------------------------------------------------------
(* Specification of the security checks: every configuration of API key,   *)
(* security enforcement, encryption key and transport, every operation.    *)
(* Requests carry no token or all three; the clock stands still.           *)

Vias == {"GetRaw", "Get", "GetEncrypted"}

ClientReqConfigs == {[EmptyRC EXCEPT !.skipCache = sk] : sk \in BOOLEAN}
SecureReqConfigs ==
    ClientReqConfigs
    \cup {[EmptyRC EXCEPT !.bdtToken = BDTToken, !.ctpToken = CTPToken, !.nbaToken = NBAToken]}

SecureConfigs ==
    {[defaultConfig EXCEPT !.apiKey = k, !.enforceSecurity = e, !.hasEncryptionKey = h] :
        k \in {<<>>, <<"K">>}, e \in BOOLEAN, h \in BOOLEAN}

SecureAnswers ==
    {TransportError("E010"), TransportError(""),
     Text("", "ok", 1, TRUE, 0),
     Text("rdb1", "ok", 0, TRUE, 0),
     Text("rdb1", "E004", 0, FALSE, 0)}

InitSecure ==
    /\ InitIdleLabel
    /\ InitIdleDriver
    /\ InitIdleLib
    /\ InitIdleCalls
    /\ tEncrypted \in BOOLEAN
    /\ entries = EmptyMap
    /\ now = 0
    /\ config \in SecureConfigs

NextSecure ==
    \/ (GetCall(Vias, Resources, Keys, SecureReqConfigs) /\ UNCHANGED <<labelVars, libVars, driverVars>>)
    \/ (ListCall(Resources, SecureReqConfigs) /\ UNCHANGED <<labelVars, libVars, driverVars>>)
    \/ (SetCall(Resources, Keys, SecureReqConfigs, Payloads) /\ UNCHANGED <<labelVars, libVars, driverVars>>)
    \/ (DeleteCall(Resources, Keys, SecureReqConfigs) /\ UNCHANGED <<labelVars, libVars, driverVars>>)
    \/ (SetEncryptedCall(Resources, Keys, SecureReqConfigs, Payloads) /\ UNCHANGED <<labelVars, libVars, driverVars>>)
    \/ (Attempt(SecureAnswers) /\ UNCHANGED <<labelVars, libVars, driverVars>>)
    \/ (BackoffDone /\ UNCHANGED <<labelVars, libVars, driverVars>>)
    \/ (Ack /\ UNCHANGED <<labelVars, libVars, driverVars>>)

SpecSecure == InitSecure /\ [][NextSecure]_vars

----------------------------------------------------------------------------
(* Specification of query-name construction: every operation, every        *)
(* combination of request tokens, keys that sanitize to nothing, payloads  *)
(* of both sizes.  The cache is bypassed and the clock stands still (it     *)
(* only stamps the auth label).                                             *)

QueryReqConfigs ==
    [skipCache : {TRUE}, encrypt : {FALSE},
     bdtToken : {<<>>, BDTToken}, ctpToken : {<<>>, CTPToken}, nbaToken : {<<>>, NBAToken}]

QueryConfigs ==
    {defaultConfig,
     [defaultConfig EXCEPT !.apiKey = <<"K">>, !.hasEncryptionKey = TRUE],
     [defaultConfig EXCEPT !.apiKey = <<"a">>],
     [defaultConfig EXCEPT !.apiKey = <<"K">>, !.namespace = <<"M","y","_","A","p","p">>]}

QueryAnswers == {TransportError("E010"), Text("rdb1", "ok", 0, TRUE, 0)}

InitQuery ==
    /\ InitIdleLabel
    /\ InitIdleDriver
    /\ InitIdleLib
    /\ InitIdleClient
    /\ entries = EmptyMap
    /\ now \in {0, 12}
    /\ config \in QueryConfigs

NextQuery ==
    \/ (GetCall({"GetRaw"}, Resources, Keys, QueryReqConfigs) /\ UNCHANGED <<labelVars, libVars, driverVars>>)
    \/ (ListCall(Resources, QueryReqConfigs) /\ UNCHANGED <<labelVars, libVars, driverVars>>)
    \/ (SetCall(Resources, Keys, QueryReqConfigs, Payloads) /\ UNCHANGED <<labelVars, libVars, driverVars>>)
    \/ (DeleteCall(Resources, Keys, QueryReqConfigs) /\ UNCHANGED <<labelVars, libVars, driverVars>>)
    \/ (SetEncryptedCall(Resources, Keys, QueryReqConfigs, Payloads) /\ UNCHANGED <<labelVars, libVars, driverVars>>)
    \/ (Attempt(QueryAnswers) /\ UNCHANGED <<labelVars, libVars, driverVars>>)
    \/ (BackoffDone /\ UNCHANGED <<labelVars, libVars, driverVars>>)
    \/ (Ack /\ UNCHANGED <<labelVars, libVars, driverVars>>)

SpecQuery == InitQuery /\ [][NextQuery]_vars

----------------------------------------------------------------------------
(* Specification of the client over its cache: an authenticated client on  *)
(* an encrypted transport, requests without tokens, every answer of the    *)
(* transport, and the clock advancing.                                      *)

ClientKeys == {<<"q">>, <<"Q">>}
ClientPayloads == {[ok |-> TRUE, json |-> SmallJSON]}
ClientConfigs ==
    {[defaultConfig EXCEPT !.apiKey = <<"K">>, !.hasEncryptionKey = TRUE],
     [defaultConfig EXCEPT !.apiKey = <<"K">>, !.cacheEnabled = FALSE]}

InitClient ==
    /\ InitIdleLabel
    /\ InitIdleDriver
    /\ InitIdleLib
    /\ InitIdleClient
    /\ entries = EmptyMap
    /\ now = 0
    /\ config \in ClientConfigs

NextClient ==
    \/ (GetCall(Vias, Resources, ClientKeys, ClientReqConfigs) /\ UNCHANGED <<labelVars, libVars, driverVars>>)
    \/ (ListCall(Resources, ClientReqConfigs) /\ UNCHANGED <<labelVars, libVars, driverVars>>)
    \/ (SetCall(Resources, ClientKeys, ClientReqConfigs, ClientPayloads) /\ UNCHANGED <<labelVars, libVars, driverVars>>)
    \/ (DeleteCall(Resources, ClientKeys, ClientReqConfigs) /\ UNCHANGED <<labelVars, libVars, driverVars>>)
    \/ (SetEncryptedCall(Resources, ClientKeys, ClientReqConfigs, ClientPayloads) /\ UNCHANGED <<labelVars, libVars, driverVars>>)
    \/ (Attempt(Answers) /\ UNCHANGED <<labelVars, libVars, driverVars>>)
    \/ (BackoffDone /\ UNCHANGED <<labelVars, libVars, driverVars>>)
    \/ (Ack /\ UNCHANGED <<labelVars, libVars, driverVars>>)
    \/ (ClientTick /\ UNCHANGED <<labelVars, libVars, driverVars>>)

SpecClient == InitClient /\ [][NextClient]_vars

----------------
(* Specification of the label codec *)

InitLabel ==
    /\ labelIn \in LabelInputs
    /\ labelOut = NotCalled
    /\ InitIdleDriver
    /\ InitIdleLib
    /\ InitIdleClient
    /\ entries = EmptyMap
    /\ now = 0
    /\ config = defaultConfig

NextLabel == Sanitize /\ UNCHANGED <<cacheVars, driverVars, clientVars, libVars>>

SpecLabel == InitLabel /\ [][NextLabel]_vars

----------------------------------------------------------------------------
(* Specification of doWithRetry under cancellation: reads and writes of an *)
(* authenticated client, every retry configuration (no retry, multipliers  *)
(* below, at and above one), every error a transport can return, and the   *)
(* caller cancelling the context at any point.  The clock stands still.    *)

RetryKeys == {<<"q">>}
RetryConfigs ==
    {[defaultConfig EXCEPT !.apiKey = <<"K">>, !.maxRetries = r,
                           !.initialBackoff = i, !.multiplier = m] :
        r \in {0, MaxRetries},
        i \in {InitialBackoff, InitialBackoff + 1},
        m \in {<<1, 2>>, <<1, 1>>, <<2, 1>>}}
RetryAnswers ==
    {TransportError(c) : c \in {"", "context", "E004", "E010", "E012", "E013"}}
    \cup {Text("", "ok", 1, TRUE, 0),
          Text("rdb1", "ok", 1, TRUE, 0),
          Text("rdb1", "E010", 0, FALSE, 0)}

InitRetry ==
    /\ InitIdleLabel
    /\ InitIdleDriver
    /\ InitIdleLib
    /\ InitIdleClient
    /\ entries = EmptyMap
    /\ now = 0
    /\ config \in RetryConfigs

NextRetry ==
    \/ (GetCall({"GetRaw"}, Resources, RetryKeys, ClientReqConfigs) /\ UNCHANGED <<labelVars, libVars, driverVars>>)
    \/ (SetCall(Resources, RetryKeys, {EmptyRC}, ClientPayloads) /\ UNCHANGED <<labelVars, libVars, driverVars>>)
    \/ (Attempt(RetryAnswers) /\ UNCHANGED <<labelVars, libVars, driverVars>>)
    \/ (BackoffDone /\ UNCHANGED <<labelVars, libVars, driverVars>>)
    \/ (BackoffCancelled /\ UNCHANGED <<labelVars, libVars, driverVars>>)
    \/ (Cancel /\ UNCHANGED <<labelVars, libVars, driverVars>>)
    \/ (Ack /\ UNCHANGED <<labelVars, libVars, driverVars>>)

SpecRetry == InitRetry /\ [][NextRetry]_vars

----------------------------------------------------------------------------
(* Specification of the memory cache under concurrent calls: two           *)
(* goroutines call Get while Set, Delete and Clear run and time passes.    *)
(* A step is what a call does while it holds the mutex, or between two     *)
(* critical sections: Get reads the map under the read lock, looks at the  *)
(* clock after releasing it, and calls Delete under the write lock.        *)

RaceKeys == {<<"f","o","o">>, <<"F","O","O">>}
RaceTTLs == {0, 1}

\* memoryCache.Get, the read-locked section: the entry found for the key.
\* The goroutine notes the Set in force for the key as its Get starts
GetRead(g) ==
    \E k \in RaceKeys :
        /\ getter[g].pc = "idle"
        /\ getter' = [getter EXCEPT ![g] =
              [pc |-> "read", key |-> k,
               ok |-> normalizeKey(k) \in DOMAIN entries,
               entry |-> IF normalizeKey(k) \in DOMAIN entries
                         THEN entries[normalizeKey(k)] ELSE NoEntry,
               set |-> normalizeKey(k) \in DOMAIN lastSet,
               after |-> IF normalizeKey(k) \in DOMAIN lastSet
                         THEN lastSet[normalizeKey(k)] ELSE NoSet]]
        /\ cacheOp' = [op |-> "none"]
        /\ UNCHANGED <<entries, now, lastSet>>

\* what a Get that returns now tells its caller, and whether the Set it
\* started after is still in force: not replaced, deleted or cleared, and
\* its TTL not elapsed
GetReturns(g, hit) ==
    [op |-> "get", key |-> getter[g].key, hit |-> hit,
     response |-> IF hit THEN getter[g].entry.response ELSE NoResponse,
     inForce |-> /\ getter[g].set
                 /\ normalizeKey(getter[g].key) \in DOMAIN lastSet
                 /\ lastSet[normalizeKey(getter[g].key)] = getter[g].after
                 /\ now < getter[g].after.until,
     expected |-> getter[g].after.response]

\* memoryCache.Get after the read lock is released: a miss, a fresh entry,
\* or an expired entry that Get goes on to delete
GetCheck(g) ==
    /\ getter[g].pc = "read"
    /\ IF getter[g].ok /\ Expired(getter[g].entry, now)
       THEN /\ getter' = [getter EXCEPT ![g].pc = "delete"]
            /\ cacheOp' = [op |-> "none"]
       ELSE /\ getter' = [getter EXCEPT ![g] = IdleGetter]
            /\ cacheOp' = GetReturns(g, getter[g].ok)
    /\ UNCHANGED <<entries, now, lastSet>>

\* memoryCache.Get: c.Delete(key) for the entry found expired, and the miss
GetDelete(g) ==
    /\ getter[g].pc = "delete"
    /\ entries' = CacheDelete(entries, getter[g].key)
    /\ getter' = [getter EXCEPT ![g] = IdleGetter]
    /\ cacheOp' = GetReturns(g, FALSE)
    /\ UNCHANGED <<now, lastSet>>

\* memoryCache.Set by another goroutine
RaceSet ==
    \E k \in RaceKeys, r \in CacheResponses, ttl \in RaceTTLs :
        /\ entries' = CacheSet(entries, k, r, ttl, now, config.maxEntries, config.defaultTTL)
        /\ lastSet' = With(lastSet, normalizeKey(k),
                           [response |-> r,
                            until |-> now + EffectiveTTL(ttl, r, config.defaultTTL)])
        /\ cacheOp' = [op |-> "set", key |-> k]
        /\ UNCHANGED <<now, getter>>

\* memoryCache.Delete by another goroutine
RaceDelete ==
    \E k \in RaceKeys :
        /\ entries' = CacheDelete(entries, k)
        /\ lastSet' = Without(lastSet, normalizeKey(k))
        /\ cacheOp' = [op |-> "delete", key |-> k]
        /\ UNCHANGED <<now, getter>>

\* memoryCache.Clear by another goroutine
RaceClear ==
    /\ entries' = CacheClear
    /\ lastSet' = EmptyMap
    /\ cacheOp' = [op |-> "clear"]
    /\ UNCHANGED <<now, getter>>

InitRace ==
    /\ InitIdleLabel
    /\ InitIdleClient
    /\ InitIdleDriver
    /\ InitIdleLib
    /\ entries = EmptyMap
    /\ now = 0
    /\ config = defaultConfig

NextRace ==
    \/ (\E g \in Getters : GetRead(g) /\ UNCHANGED <<labelVars, libVars, clientVars>>)
    \/ (\E g \in Getters : GetCheck(g) /\ UNCHANGED <<labelVars, libVars, clientVars>>)
    \/ (\E g \in Getters : GetDelete(g) /\ UNCHANGED <<labelVars, libVars, clientVars>>)
    \/ (RaceSet /\ UNCHANGED <<labelVars, libVars, clientVars>>)
    \/ (RaceDelete /\ UNCHANGED <<labelVars, libVars, clientVars>>)
    \/ (RaceClear /\ UNCHANGED <<labelVars, libVars, clientVars>>)
    \/ (CacheTick /\ UNCHANGED <<labelVars, libVars, clientVars>>)

SpecRace == InitRace /\ [][NextRace]_vars

----------------------------------------------------------------------------
(* Multi: transport.go.  A member transport is known by what its           *)
(* IsEncrypted reports; what each member answers to a query is chosen at   *)
(* the call.  nil is 0, a response or an error is the index of the member  *)
(* it came from.                                                           *)

MaxMembers == 3       \* the longest list of member transports

\* lists of member transports
MemberLists ==
    UNION {[1..n -> [encrypted : BOOLEAN]] : n \in 0..MaxMembers}

\* a Multi.Query that keeps the first error rather than the last
RECURSIVE QueryLoopFirstError(_, _, _)
QueryLoopFirstError(outs, i, lastErr) ==
    IF i > Len(outs) THEN [resp |-> 0, err |-> lastErr, queried |-> Len(outs)]
    ELSE IF outs[i] = "ok" THEN [resp |-> i, err |-> 0, queried |-> i]
    ELSE QueryLoopFirstError(outs, i + 1, IF lastErr = 0 THEN i ELSE lastErr)

\* Multi.Query, the loop from member i on with lastErr as it stands
RECURSIVE QueryLoop(_, _, _)
QueryLoop(outs, i, lastErr) ==
    IF i > Len(outs) THEN [resp |-> 0, err |-> lastErr, queried |-> Len(outs)]
    ELSE IF outs[i] = "ok" THEN [resp |-> i, err |-> 0, queried |-> i]
    ELSE QueryLoop(outs, i + 1, i)

MultiQueryFirstError(outs) == QueryLoopFirstError(outs, 1, 0)

\* Multi.Query, outs[i] telling whether member i answers or fails
MultiQuery(outs) == QueryLoop(outs, 1, 0)

\* a Multi.IsEncrypted that is content with one encrypted member
MultiIsEncryptedAny(ms) == \E i \in 1..Len(ms) : ms[i].encrypted

\* Multi.IsEncrypted, the loop from member i on
RECURSIVE EncryptedLoop(_, _)
EncryptedLoop(ms, i) ==
    IF i > Len(ms) THEN Len(ms) > 0
    ELSE IF ~ms[i].encrypted THEN FALSE
    ELSE EncryptedLoop(ms, i + 1)

\* Multi.IsEncrypted
MultiIsEncrypted(ms) == EncryptedLoop(ms, 1)

\* New: the transport of a client configured with the transports ms (the
\* default transport is DoH, which is encrypted), and what it reports
NewTransportIsEncrypted(ms) ==
    IF Len(ms) = 0 THEN TRUE
    ELSE IF Len(ms) = 1 THEN ms[1].encrypted
    ELSE MultiIsEncrypted(ms)

DoMultiQuery ==
    \E outs \in [1..Len(members) -> {"ok", "err"}] :
        /\ multiOut' = [op |-> "Query", outs |-> outs, result |-> MultiQuery(outs)]
        /\ UNCHANGED members

DoMultiIsEncrypted ==
    /\ multiOut' = [op |-> "IsEncrypted", result |-> MultiIsEncrypted(members)]
    /\ UNCHANGED members

----------------------------------------------------------------------------
(* Specification of Multi and of a client built over it: every list of     *)
(* members up to MaxMembers, Query and IsEncrypted called on the Multi, and *)
(* writes of a client whose transports are that list.                      *)

MultiConfigs == {c \in SecureConfigs : ~c.hasEncryptionKey}

InitMulti ==
    /\ InitIdleLabel
    /\ InitIdleDriver
    /\ InitIdleNonce /\ InitIdleDNS /\ InitIdleNBA /\ InitIdleConc /\ InitIdlePure
    /\ members \in MemberLists
    /\ multiOut = NotCalledYet
    /\ InitIdleCalls
    /\ tEncrypted = NewTransportIsEncrypted(members)
    /\ entries = EmptyMap
    /\ now = 0
    /\ config \in MultiConfigs

MultiFrame ==
    UNCHANGED <<labelVars, driverVars, nonceVars, dnsVars, nbaVars, concVars, pureVars>>

NextMulti ==
    \/ (DoMultiQuery /\ MultiFrame /\ UNCHANGED <<cacheVars, clientVars>>)
    \/ (DoMultiIsEncrypted /\ MultiFrame /\ UNCHANGED <<cacheVars, clientVars>>)
    \/ (SetCall(Resources, RetryKeys, {EmptyRC}, ClientPayloads) /\ MultiFrame /\ UNCHANGED multiVars)
    \/ (DeleteCall(Resources, RetryKeys, {EmptyRC}) /\ MultiFrame /\ UNCHANGED multiVars)
    \/ (Attempt(QueryAnswers) /\ MultiFrame /\ UNCHANGED multiVars)
    \/ (BackoffDone /\ MultiFrame /\ UNCHANGED multiVars)
    \/ (Ack /\ MultiFrame /\ UNCHANGED multiVars)

SpecMulti == InitMulti /\ [][NextMulti]_vars

----------------------------------------------------------------------------
(* EncryptionContext: part_001.  The 64-bit counter is a CounterBits-bit   *)
(* counter; the random tail of a nonce is one of two values.  The counter  *)
(* is only touched by an atomic add, so an Encrypt call is one step        *)
(* whichever goroutine makes it.                                           *)

CounterBits == 3      \* the width of EncryptionContext.counter
CounterMod == 2 ^ CounterBits
MaxEncrypts == CounterMod + 2     \* Encrypt calls in the lifetime of the context
ErrNonceExhausted == "ErrNonceExhausted"
RandomTails == {0, 1}

\* generateNonce: counter.Add(1), then the nonce or the error
generateNonce(c, tail, randOK) ==
    LET c1 == (c + 1) % CounterMod
    IN  IF c1 = 0 THEN [counter |-> c1, err |-> ErrNonceExhausted, nonce |-> <<>>]
        ELSE IF ~randOK THEN [counter |-> c1, err |-> "generate random", nonce |-> <<>>]
        ELSE [counter |-> c1, err |-> "nil", nonce |-> <<c1, tail>>]

\* EncryptionContext.Encrypt: the nonce leads the ciphertext it returns
Encrypt ==
    \E tail \in RandomTails, randOK \in BOOLEAN :
        LET g == generateNonce(counter, tail, randOK)
        IN  /\ encOut.calls < MaxEncrypts
            /\ counter' = g.counter
            /\ encOut' = [op |-> "Encrypt", err |-> g.err, nonce |-> g.nonce,
                          calls |-> encOut.calls + 1]
            /\ nonces' = IF g.err = "nil" THEN Append(nonces, g.nonce) ELSE nonces

InitNonce ==
    /\ InitIdleLabel
    /\ InitIdleDriver
    /\ InitIdleLib
    /\ InitIdleClient
    /\ entries = EmptyMap
    /\ now = 0
    /\ config = defaultConfig

NextNonce ==
    Encrypt /\ UNCHANGED <<labelVars, cacheVars, driverVars, clientVars,
                           multiVars, dnsVars, nbaVars, concVars, pureVars>>

SpecNonce == InitNonce /\ [][NextNonce]_vars

----------------------------------------------------------------------------
(* parseDNSResponse: part_004.  A message is a sequence of bytes, indexed  *)
(* from 0 as in the code (data[i] is msg[i + 1]).  The parse keeps, beside *)
(* what the code computes, the set of indexes it has read and the TTL of   *)
(* every record it has taken; reading an index outside the message is the  *)
(* run-time panic of Go.                                                   *)

DNSHeaderLen == 12
TypeTXT == 16
PointerFlag == 192

\* data[i], with 0 standing for what an out-of-range read cannot deliver
ByteAt(data, i) == IF i < Len(data) THEN data[i + 1] ELSE 0

\* binary.BigEndian.Uint32 of data[i:i+4]: a 32-bit unsigned value, kept as
\* its four bytes from the most significant one
Uint32(data, i) ==
    <<ByteAt(data, i), ByteAt(data, i + 1), ByteAt(data, i + 2), ByteAt(data, i + 3)>>

\* the zero value of Response.TTL
ZeroTTL == <<0, 0, 0, 0>>

\* a <= b for two 32-bit unsigned values
RECURSIVE Uint32Leq(_, _)
Uint32Leq(a, b) ==
    IF a = <<>> THEN TRUE
    ELSE IF Head(a) # Head(b) THEN Head(a) < Head(b)
    ELSE Uint32Leq(Tail(a), Tail(b))

\* the loop that skips a name: the offset after it and the indexes read
RECURSIVE SkipName(_, _, _)
SkipName(data, offset, reads) ==
    IF ~(offset < Len(data)) THEN [offset |-> offset, reads |-> reads]
    ELSE LET length == ByteAt(data, offset)
         IN  IF length = 0
             THEN [offset |-> offset + 1, reads |-> reads \cup {offset}]
             ELSE IF length >= PointerFlag
             THEN [offset |-> offset + 2, reads |-> reads \cup {offset}]
             ELSE SkipName(data, offset + 1 + length, reads \cup {offset})

\* the question section: qdcount times, skip a name, QTYPE and QCLASS
RECURSIVE SkipQuestions(_, _, _, _)
SkipQuestions(data, qdcount, offset, reads) ==
    IF qdcount = 0 THEN [offset |-> offset, reads |-> reads]
    ELSE LET n == SkipName(data, offset, reads)
         IN  SkipQuestions(data, qdcount - 1, n.offset + 4, n.reads)

\* TXT rdata with its length bytes stripped
RECURSIVE StripTXT(_, _, _)
StripTXT(rdata, pos, txtData) ==
    IF ~(pos < Len(rdata)) THEN txtData
    ELSE LET length == rdata[pos + 1]
         IN  StripTXT(rdata, pos + 1 + length,
                      IF pos + 1 + length <= Len(rdata)
                      THEN txtData \o SubSeq(rdata, pos + 2, pos + 1 + length)
                      ELSE txtData)

\* an answer loop that reads a record's fixed fields without the length check
HeaderFitsUnchecked(data, offset) == TRUE

\* the check before the fixed fields of a record: not offset+10 > len(data)
HeaderFits(data, offset) == ~(offset + 10 > Len(data))

\* the check before the RDATA slice: not offset+rdlen > len(data)
RDataFits(data, offset, rdlen) == ~(offset + rdlen > Len(data))

\* the answer loop from record i on
RECURSIVE AnswerLoop(_, _, _)
AnswerLoop(data, ancount, st) ==
    IF ~(st.i < ancount /\ st.offset < Len(data)) THEN st
    ELSE LET n == SkipName(data, st.offset, st.reads)
             o == n.offset
         IN  IF ~HeaderFits(data, o) THEN [st EXCEPT !.reads = n.reads]
             ELSE
             LET rtype == ByteAt(data, o) * 256 + ByteAt(data, o + 1)
                 ttl == Uint32(data, o + 4)
                 rdlen == ByteAt(data, o + 8) * 256 + ByteAt(data, o + 9)
                 fixed == n.reads \cup {o, o + 1} \cup (o + 4)..(o + 9)
                 start == o + 10
             IN  IF ~RDataFits(data, start, rdlen) THEN [st EXCEPT !.reads = fixed]
                 ELSE
                 LET rdata == SubSeq(data, start + 1, start + rdlen)
                     record == IF rtype = TypeTXT /\ Len(rdata) > 0
                               THEN StripTXT(rdata, 0, <<>>) ELSE rdata
                 IN  AnswerLoop(data, ancount,
                         [offset |-> start + rdlen,
                          i |-> st.i + 1,
                          Records |-> Append(st.Records, record),
                          TTL |-> IF st.TTL = ZeroTTL THEN ttl ELSE st.TTL,
                          ttls |-> Append(st.ttls, ttl),
                          reads |-> fixed \cup start..(start + rdlen - 1)])

RECURSIVE Concat(_)
Concat(records) ==
    IF records = <<>> THEN <<>> ELSE Head(records) \o Concat(Tail(records))

\* parseDNSResponse
parseDNSResponse(data) ==
    IF Len(data) < DNSHeaderLen THEN [kind |-> "error"]
    ELSE LET qdcount == ByteAt(data, 4) * 256 + ByteAt(data, 5)
             q == SkipQuestions(data, qdcount, DNSHeaderLen, {4, 5})
             ancount == ByteAt(data, 6) * 256 + ByteAt(data, 7)
             a == AnswerLoop(data, ancount,
                             [offset |-> q.offset, i |-> 0, Records |-> <<>>, TTL |-> ZeroTTL,
                              ttls |-> <<>>, reads |-> q.reads \cup {6, 7}])
         IN  [kind |-> IF \E r \in a.reads : r >= Len(data) THEN "panic" ELSE "response",
              Records |-> a.Records, TTL |-> a.TTL, Data |-> Concat(a.Records),
              ttls |-> a.ttls, reads |-> a.reads]

----------------------------------------------------------------------------
(* Specification of the DNS parser: well-formed messages with up to        *)
(* MaxAnswers answers in every order of their TTLs, the same messages with *)
(* the counts of the header raised above what follows, cut at every        *)
(* length, and every short message over the bytes that steer the parser.   *)

MaxAnswers == 2       \* answer records of a well-formed message
DNSTTLs == {0, 1, 2}

DNSHeader(qdcount, ancount) == <<0, 0, 129, 128, 0, qdcount, 0, ancount, 0, 0, 0, 0>>
DNSQuestion == <<1, 97, 0, 0, TypeTXT, 0, 1>>
\* an answer: a pointer to the name, TYPE, CLASS, TTL, RDLENGTH, RDATA
DNSAnswer(rtype, ttl, rdata) ==
    <<PointerFlag, DNSHeaderLen, 0, rtype, 0, 1, 0, 0, 0, ttl, 0, Len(rdata)>> \o rdata
DNSRData == {<<1, 120, 1, 121>>, <<3, 120>>, <<>>}

\* the answer sections of n records
RECURSIVE DNSAnswerSections(_)
DNSAnswerSections(n) ==
    IF n = 0 THEN {<<>>}
    ELSE {DNSAnswer(t, ttl, rd) \o rest :
             t \in {1, TypeTXT}, ttl \in DNSTTLs, rd \in DNSRData,
             rest \in DNSAnswerSections(n - 1)}

\* messages as a server sends them, and with counts that promise more
DNSWholeMessages ==
    {DNSHeader(qd, an) \o (IF qd = 0 THEN <<>> ELSE DNSQuestion) \o as :
        qd \in {0, 1, 3}, an \in {0, MaxAnswers, MaxAnswers + 1},
        as \in UNION {DNSAnswerSections(n) : n \in {0, MaxAnswers}}}

\* a few whole messages cut at every length
DNSCutMessages ==
    UNION {{SubSeq(m, 1, n) : n \in 0..Len(m)} :
        m \in {DNSHeader(1, MaxAnswers) \o DNSQuestion \o as :
                  as \in {s \in DNSAnswerSections(MaxAnswers) :
                             \A i \in 1..Len(s) : s[i] # 2}}}

\* a header followed by up to three steering bytes
DNSShortMessages ==
    {DNSHeader(qd, an) \o body :
        qd \in {0, 1, 2}, an \in {0, 1, 2},
        body \in UNION {[1..n -> {0, 1, TypeTXT, PointerFlag}] : n \in 0..3}}

DNSMessages == DNSWholeMessages \cup DNSCutMessages \cup DNSShortMessages

\* the transport hands the bytes it received to parseDNSResponse
ParseDNS ==
    /\ dnsOut.op = "none"
    /\ dnsOut' = [op |-> "parseDNSResponse"] @@ parseDNSResponse(dnsIn)
    /\ UNCHANGED dnsIn

InitDNS ==
    /\ InitIdleLabel
    /\ InitIdleDriver
    /\ InitIdleMulti
    /\ InitIdleNonce
    /\ InitIdleNBA
    /\ InitIdleConc
    /\ InitIdlePure
    /\ dnsIn \in DNSMessages
    /\ dnsOut = NotCalledYet
    /\ InitIdleClient
    /\ entries = EmptyMap
    /\ now = 0
    /\ config = defaultConfig

NextDNS ==
    ParseDNS /\ UNCHANGED <<labelVars, cacheVars, driverVars, clientVars,
                            multiVars, nonceVars, nbaVars, concVars, pureVars>>

SpecDNS == InitDNS /\ [][NextDNS]_vars

----------------------------------------------------------------------------
(* NBA, the namespace-bound signature: part_001.  HMAC-SHA256 is a keyed    *)
(* function without collisions on the messages of the model: its first 16  *)
(* bytes in hex are the key and the message, spelled in hex digits and      *)
(* padded on the left to 32 characters.                                     *)

NBASigBytes == 16      \* signature[:16]
NBAMinSigLen == 32     \* len(token) < len(PrefixNBA)+32
FutureSkew == 30       \* timestamp > now+30

\* one character of a message as a hex digit
HexChar(c) == IF c = "|" THEN "f" ELSE c

\* fmt.Sprintf("%s|%s|%s|%d", namespace, resource, key, timestamp)
NBAMessage(namespace, resource, key, timestamp) ==
    namespace \o <<"|">> \o resource \o <<"|">> \o key \o <<"|">> \o Dec(timestamp)

\* hex.EncodeToString(hmac(signingKey, message)[:16])
HMACHex(signingKey, message) ==
    LET body == signingKey \o [i \in 1..Len(message) |-> HexChar(message[i])]
    IN  Rep("0", 2 * NBASigBytes - Len(body)) \o body

\* NewNBA at time timestamp: the token it returns
NewNBA(namespace, resource, key, signingKey, timestamp) ==
    PrefixSig \o HMACHex(signingKey, NBAMessage(namespace, resource, key, timestamp))
        \o <<"-", "t", "-">> \o Dec(timestamp)

\* the value of a string of decimal digits
RECURSIVE DigitsValue(_)
DigitsValue(str) ==
    IF str = <<>> THEN 0
    ELSE 10 * DigitsValue(SubSeq(str, 1, Len(str) - 1))
         + (CHOOSE d \in 0..9 : Digits[d + 1] = str[Len(str)])

\* strconv.ParseInt(s, 10, 64): an optional sign, then one or more digits
ParseInt(str) ==
    LET signed == str # <<>> /\ Head(str) \in {"+", "-"}
        digits == IF signed THEN Tail(str) ELSE str
    IN  IF digits = <<>> \/ \E i \in 1..Len(digits) : digits[i] \notin DigitSet
        THEN [err |-> "invalid syntax", value |-> 0]
        ELSE [err |-> "nil",
              value |-> IF signed /\ Head(str) = "-" THEN 0 - DigitsValue(digits)
                        ELSE DigitsValue(digits)]

\* the scan for the last '-': its 0-based index in parts, -1 if there is none
RECURSIVE LastDash(_, _)
LastDash(parts, idx) ==
    IF idx >= 0 /\ parts[idx + 1] # "-" THEN LastDash(parts, idx - 1) ELSE idx

\* a window check that forgets the future bound
InWindowNoFutureBound(timestamp, clock, maxAge) == ~(timestamp < clock - maxAge)

\* the timestamp check: not (timestamp < now-maxAge || timestamp > now+30)
InWindow(timestamp, clock, maxAge) ==
    ~(timestamp < clock - maxAge \/ timestamp > clock + FutureSkew)

\* ValidateNBA, evaluated when time.Now().Unix() is clock
ValidateNBA(token, namespace, resource, key, signingKey, maxAge, clock) ==
    IF Len(token) < Len(PrefixSig) + NBAMinSigLen THEN "invalid NBA format"
    ELSE
    LET parts == SubSeq(token, Len(PrefixSig) + 1, Len(token))
        idx == LastDash(parts, Len(parts) - 1)
    IN  IF idx < 3 \/ SubSeq(parts, idx - 1, idx) # <<"-", "t">>
        THEN "invalid NBA format: missing timestamp"
        ELSE
        LET sigHex == SubSeq(parts, 1, idx - 2)
            tsStr == SubSeq(parts, idx + 2, Len(parts))
            ts == ParseInt(tsStr)
        IN  IF ts.err # "nil" THEN "invalid timestamp"
            ELSE IF ~InWindow(ts.value, clock, maxAge)
            THEN "signature expired or future-dated"
            ELSE IF sigHex # HMACHex(signingKey,
                                     NBAMessage(namespace, resource, key, ts.value))
            THEN "signature mismatch"
            ELSE "nil"

----------------------------------------------------------------------------
(* Specification of NBA: tokens made by NewNBA and tokens put together by   *)
(* hand (intact, with a sign or a leading zero before the timestamp, with   *)
(* one tag character altered, with a damaged shape), for timestamps on both *)
(* sides of the window, validated under the same or another signing key and *)
(* namespace.                                                               *)

NBAMaxAge == 2         \* the largest maxAge, in seconds
NBAClocks == {1, 9, 10}
NBASigningKeys == {<<"1">>, <<"2">>}
NBANamespaces == {<<"a">>, <<"b">>}
NBAResource == <<"c">>
NBAKey == <<"d">>
NBATimestamps == 0..(10 + FutureSkew + 1)

\* the positions of the tag at which a character is altered
NBAAlteredAt == {1, NBASigBytes, 2 * NBASigBytes}

\* str with the character at position pos replaced by c
ReplaceAt(str, pos, c) == [str EXCEPT ![pos] = c]

\* a tag character replaced by another one
OtherChar(c, dash) == IF dash THEN "-" ELSE IF c = "0" THEN "1" ELSE "0"

NBAShapes ==
    {[kind |-> k, at |-> 0, dash |-> FALSE] :
        k \in {"intact", "plus", "zero", "prefix", "marker", "nodash", "short",
               "shorttag", "badts", "nots"}}
    \cup {[kind |-> "altered", at |-> p, dash |-> d] : p \in NBAAlteredAt, d \in BOOLEAN}

\* a token put together by hand from a tag and a timestamp
HandMadeToken(shape, tag, timestamp) ==
    LET k == shape.kind
        theTag == IF k = "altered"
                  THEN ReplaceAt(tag, shape.at, OtherChar(tag[shape.at], shape.dash))
                  ELSE IF k = "short" THEN SubSeq(tag, 1, NBASigBytes)
                  ELSE IF k = "shorttag" THEN Tail(tag)
                  ELSE tag
        marker == IF k = "marker" THEN <<"-", "x", "-">>
                  ELSE IF k = "nodash" THEN <<>>
                  ELSE <<"-", "t", "-">>
        tsStr == IF k = "plus" THEN <<"+">> \o Dec(timestamp)
                 ELSE IF k = "zero" THEN <<"0">> \o Dec(timestamp)
                 ELSE IF k = "badts" THEN Dec(timestamp) \o <<"x">>
                 ELSE IF k = "nots" THEN <<>>
                 ELSE Dec(timestamp)
        prefix == IF k = "prefix" THEN <<"x", "i", "g", "-">> ELSE PrefixSig
    IN  prefix \o theTag \o marker \o tsStr

\* what the signer signed, and what the validator is called with
NBAInputs ==
    [made : [shape : NBAShapes \cup {[kind |-> "NewNBA", at |-> 0, dash |-> FALSE]},
             namespace : NBANamespaces, signingKey : NBASigningKeys,
             timestamp : NBATimestamps],
     token : {<<>>},
     namespace : NBANamespaces, signingKey : NBASigningKeys,
     maxAge : 0..NBAMaxAge, clock : NBAClocks]

\* the signer makes the token: NewNBA at its time, or a token made by hand
DoNewNBA ==
    /\ nbaIn.token = <<>>
    /\ nbaIn.made.shape.kind = "NewNBA"
    /\ nbaIn' = [nbaIn EXCEPT !.token =
                    NewNBA(nbaIn.made.namespace, NBAResource, NBAKey,
                           nbaIn.made.signingKey, nbaIn.made.timestamp)]
    /\ UNCHANGED nbaOut

ForgeNBA ==
    /\ nbaIn.token = <<>>
    /\ nbaIn.made.shape.kind # "NewNBA"
    /\ nbaIn' = [nbaIn EXCEPT !.token =
                    HandMadeToken(nbaIn.made.shape,
                        HMACHex(nbaIn.made.signingKey,
                                NBAMessage(nbaIn.made.namespace, NBAResource, NBAKey,
                                           nbaIn.made.timestamp)),
                        nbaIn.made.timestamp)]
    /\ UNCHANGED nbaOut

DoValidateNBA ==
    /\ nbaIn.token # <<>>
    /\ nbaOut.op = "none"
    /\ nbaOut' = [op |-> "ValidateNBA",
                  err |-> ValidateNBA(nbaIn.token, nbaIn.namespace, NBAResource, NBAKey,
                                      nbaIn.signingKey, nbaIn.maxAge, nbaIn.clock)]
    /\ UNCHANGED nbaIn

InitNBA ==
    /\ InitIdleLabel
    /\ InitIdleDriver
    /\ InitIdleMulti
    /\ InitIdleNonce
    /\ InitIdleDNS
    /\ InitIdleConc
    /\ InitIdlePure
    /\ nbaIn \in NBAInputs
    /\ nbaOut = NotCalledYet
    /\ InitIdleClient
    /\ entries = EmptyMap
    /\ now = 0
    /\ config = defaultConfig

NBAFrame == UNCHANGED <<labelVars, cacheVars, driverVars, clientVars,
                        multiVars, nonceVars, dnsVars, concVars, pureVars>>

NextNBA ==
    \/ (DoNewNBA /\ NBAFrame)
    \/ (ForgeNBA /\ NBAFrame)
    \/ (DoValidateNBA /\ NBAFrame)

SpecNBA == InitNBA /\ [][NextNBA]_vars

----------------------------------------------------------------------------
(* One Client shared by goroutines ("safe for concurrent use", client.go). *)
(* Each goroutine runs GetRaw, Set or Delete for one resource and key; a   *)
(* step is what a call does between two accesses to what the goroutines    *)
(* share, the cache and the transport.  The queries and the returns of the *)
(* writes are numbered in the order they happen.                           *)

Goroutines == {"g1", "g2"}
MaxEvents == 6         \* numbered events (queries answered, writes returned)
SharedResource == <<"w","x">>
SharedKey == <<"q">>
SharedCacheKey == GetCacheKey(config, SharedResource, SharedKey)
IdleCaller == [pc |-> "idle", op |-> "none", at |-> 0, response |-> NoResponse]
NoHistory == [op |-> "shared", seq |-> 0, cached |-> 0, written |-> 0,
              served |-> [op |-> "none", fetched |-> 0, written |-> 0]]
SharedStatuses == {"ok", "E004"}

\* GetRaw up to its query: the cache lookup, and the return on a hit
SharedGetStart(g) ==
    /\ callers[g].pc = "idle"
    /\ hist.seq < MaxEvents
    /\ IF ClientCacheHit(config, entries, SharedCacheKey, now)
       THEN /\ hist' = [hist EXCEPT !.served = [op |-> "GetRaw", fetched |-> hist.cached,
                                                written |-> hist.written]]
            /\ UNCHANGED <<callers, entries>>
       ELSE /\ entries' = ClientCacheAfterGet(config, entries, SharedCacheKey, now)
            /\ callers' = [callers EXCEPT ![g] = [IdleCaller EXCEPT !.pc = "getQuery",
                                                                   !.op = "GetRaw"]]
            /\ UNCHANGED hist

\* the transport answers the query of GetRaw
SharedGetAnswer(g) ==
    \E status \in SharedStatuses :
        /\ callers[g].pc = "getQuery"
        /\ hist' = [hist EXCEPT !.seq = hist.seq + 1]
        /\ callers' = [callers EXCEPT ![g] =
                          IF ShouldStore(Response(status, 1, TRUE), EmptyRC)
                          THEN [callers[g] EXCEPT !.pc = "getStore", !.at = hist.seq + 1,
                                                  !.response = Response(status, 1, TRUE)]
                          ELSE IdleCaller]
        /\ UNCHANGED entries

\* GetRaw stores the response it holds, and returns it
SharedGetStore(g) ==
    /\ callers[g].pc = "getStore"
    /\ entries' = ClientCacheSet(config, entries, SharedCacheKey, callers[g].response,
                                 StoreTTL(callers[g].response), now)
    /\ hist' = [hist EXCEPT !.cached = callers[g].at]
    /\ callers' = [callers EXCEPT ![g] = IdleCaller]

\* Set or Delete up to its query, which is dispatched
SharedWriteStart(g) ==
    \E op \in {"Set", "Delete"} :
        /\ callers[g].pc = "idle"
        /\ hist.seq < MaxEvents - 1
        /\ WriteRefusal(config, tEncrypted) = "nil"
        /\ hist' = [hist EXCEPT !.seq = hist.seq + 1]
        /\ callers' = [callers EXCEPT ![g] = [IdleCaller EXCEPT !.pc = "writeQuery",
                                                               !.op = op,
                                                               !.at = hist.seq + 1]]
        /\ UNCHANGED entries

\* the transport answers the query of the write
SharedWriteAnswer(g) ==
    \E status \in SharedStatuses :
        /\ callers[g].pc = "writeQuery"
        /\ callers' = [callers EXCEPT ![g] =
                          IF Invalidates(Response(status, 0, FALSE))
                          THEN [callers[g] EXCEPT !.pc = "invalidate"]
                          ELSE IdleCaller]
        /\ UNCHANGED <<entries, hist>>

\* the write deletes the entry of the get fingerprint and returns success
SharedWriteReturn(g) ==
    /\ callers[g].pc = "invalidate"
    /\ entries' = ClientCacheDelete(config, entries, SharedCacheKey)
    /\ hist' = [hist EXCEPT !.seq = hist.seq + 1,
                            !.cached = IF config.cacheEnabled THEN 0 ELSE hist.cached,
                            !.written = IF callers[g].at > hist.written
                                        THEN callers[g].at ELSE hist.written]
    /\ callers' = [callers EXCEPT ![g] = IdleCaller]

InitShared ==
    /\ InitIdleLabel
    /\ InitIdleDriver
    /\ InitIdleMulti /\ InitIdleNonce /\ InitIdleDNS /\ InitIdleNBA /\ InitIdlePure
    /\ InitIdleClient
    /\ callers = [g \in Goroutines |-> IdleCaller]
    /\ hist = NoHistory
    /\ entries = EmptyMap
    /\ now = 0
    /\ config = [defaultConfig EXCEPT !.apiKey = <<"K">>]

SharedFrame == UNCHANGED <<labelVars, now, driverVars, clientVars,
                           multiVars, nonceVars, dnsVars, nbaVars, pureVars>>

NextShared ==
    \/ (\E g \in Goroutines : SharedGetStart(g) /\ SharedFrame)
    \/ (\E g \in Goroutines : SharedGetAnswer(g) /\ SharedFrame)
    \/ (\E g \in Goroutines : SharedGetStore(g) /\ SharedFrame)
    \/ (\E g \in Goroutines : SharedWriteStart(g) /\ SharedFrame)
    \/ (\E g \in Goroutines : SharedWriteAnswer(g) /\ SharedFrame)
    \/ (\E g \in Goroutines : SharedWriteReturn(g) /\ SharedFrame)

SpecShared == InitShared /\ [][NextShared]_vars

----------------------------------------------------------------------------
(* The two fingerprints of a Get: the cache key GetRaw looks up and the    *)
(* query name it would send, for two requests of one client.               *)

FingerprintResources == {<<"a">>, <<"a", ".", "b">>, <<"A">>, <<"a", "_">>}
FingerprintKeys == {<<>>, <<"c">>, <<"b", ".", "c">>, <<"C">>}
FingerprintReqConfigs == {EmptyRC, [EmptyRC EXCEPT !.nbaToken = NBAToken]}
FingerprintRequests ==
    [resource : FingerprintResources, key : FingerprintKeys, rc : FingerprintReqConfigs]

\* a query name without its auth label
WithoutAuthLabel(name) ==
    Join(SelectSeq(Split(name), LAMBDA label : ~HasPrefix(label, PrefixAuth)))

\* GetRaw: the query name and the cache key it builds for a request
Fingerprint(cfg, req, authToken) ==
    [name |-> buildQueryName(cfg, OpGet, req.resource, req.key, req.rc, authToken),
     cacheKey |-> GetCacheKey(cfg, req.resource, req.key)]

BuildFingerprints ==
    \E sig1 \in Digests, sig2 \in Digests :
        /\ libOut.op = "none"
        /\ libOut' = [op |-> "GetRaw",
                      first |-> Fingerprint(config, libIn.first,
                                            generateAuthToken(sig1, now)),
                      second |-> Fingerprint(config, libIn.second,
                                             generateAuthToken(sig2, now))]
        /\ UNCHANGED libIn

InitFingerprint ==
    /\ InitIdleLabel
    /\ InitIdleDriver
    /\ InitIdleMulti /\ InitIdleNonce /\ InitIdleDNS /\ InitIdleNBA /\ InitIdleConc
    /\ InitIdleClient
    /\ libIn \in [op : {"GetRaw"}, first : FingerprintRequests, second : FingerprintRequests]
    /\ libOut = NotCalledYet
    /\ entries = EmptyMap
    /\ now = 0
    /\ config = [defaultConfig EXCEPT !.apiKey = <<"K">>]

PureFrame == UNCHANGED <<labelVars, cacheVars, driverVars, clientVars,
                         multiVars, nonceVars, dnsVars, nbaVars, concVars>>

NextFingerprint == BuildFingerprints /\ PureFrame

SpecFingerprint == InitFingerprint /\ [][NextFingerprint]_vars

----------------------------------------------------------------------------
(* Response.ToError on the characters of Status and Error: client.go and   *)
(* errors.go.  The result is nil, an *Error with its code and details, or  *)
(* the run-time panic of a slice expression beyond the end of a string.    *)

CodeSuccess == <<"E", "0", "0", "0">>
CodeUnauthorized == <<"E", "0", "0", "2">>
CodeForbidden == <<"E", "0", "0", "3">>
CodeNotFound == <<"E", "0", "0", "4">>
CodeServerError == <<"E", "0", "1", "0">>
CodeTimeout == <<"E", "0", "1", "2">>
CodeRateLimited == <<"E", "0", "1", "3">>
StatusOK == <<"o", "k">>
StatusSuccess == <<"s", "u", "c", "c", "e", "s", "s">>
StatusError == <<"e", "r", "r", "o", "r">>
StatusCodes ==
    [s \in {<<"n", "o", "t", "f", "o", "u", "n", "d">>, <<"u", "n", "a", "u", "t", "h", "o", "r", "i", "z", "e", "d">>, <<"f", "o", "r", "b", "i", "d", "d", "e", "n">>,
            <<"r", "a", "t", "e", "l", "i", "m", "i", "t">>, <<"r", "a", "t", "e", "l", "i", "m", "i", "t", "e", "d">>, <<"t", "i", "m", "e", "o", "u", "t">>} |->
        IF s = <<"n", "o", "t", "f", "o", "u", "n", "d">> THEN CodeNotFound
        ELSE IF s = <<"u", "n", "a", "u", "t", "h", "o", "r", "i", "z", "e", "d">> THEN CodeUnauthorized
        ELSE IF s = <<"f", "o", "r", "b", "i", "d", "d", "e", "n">> THEN CodeForbidden
        ELSE IF s = <<"t", "i", "m", "e", "o", "u", "t">> THEN CodeTimeout
        ELSE CodeRateLimited]

NilError == [kind |-> "nil", code |-> <<>>, details |-> <<>>]
Panic == [kind |-> "panic", code |-> <<>>, details |-> <<>>]

\* errorFromCode: nil for E000, an *Error with the code otherwise
errorFromCode(code, details) ==
    IF code = CodeSuccess THEN NilError
    ELSE [kind |-> "error", code |-> code, details |-> details]

\* Response.IsSuccess on the characters of Status
IsSuccessStatus(status) == status = StatusOK \/ status = StatusSuccess

\* Response.ToError
ResponseToError(status, err) ==
    IF IsSuccessStatus(status) THEN NilError
    ELSE IF HasPrefix(status, <<"E", "0">>) THEN errorFromCode(status, err)
    ELSE IF status \in DOMAIN StatusCodes THEN errorFromCode(StatusCodes[status], err)
    ELSE IF status = StatusError
    THEN IF err # <<>> /\ HasPrefix(err, <<"E", "0">>)
         THEN IF Len(err) < 4 THEN Panic
              ELSE errorFromCode(SubSeq(err, 1, 4),
                                 IF Len(err) > 5 THEN SubSeq(err, 6, Len(err)) ELSE <<>>)
         ELSE errorFromCode(CodeServerError, err)
    ELSE [kind |-> "error", code |-> CodeServerError, details |-> err]

----------------------------------------------------------------------------
(* Specification of ToError: every status the server documents, E codes,   *)
(* unknown and empty statuses, with err strings of every length up to a    *)
(* code with details.                                                      *)

ToErrorStatuses ==
    DOMAIN StatusCodes
    \cup {StatusOK, StatusSuccess, StatusError, CodeSuccess, CodeNotFound, CodeServerError,
          <<"E", "0">>, <<"E", "0", "9", "9">>, <<>>, <<"O", "K">>, <<"w", "h", "a", "t">>}
ToErrorErrs ==
    {SubSeq(<<"E", "0", "0", "4", ":", "x", "y">>, 1, n) : n \in 0..7}
    \cup {CodeSuccess, CodeSuccess \o <<" ", "o", "k">>, <<"b", "o", "o", "m">>, <<"E">>}

DoToError ==
    /\ libOut.op = "none"
    /\ libOut' = [op |-> "ToError", success |-> IsSuccessStatus(libIn.Status),
                  err |-> ResponseToError(libIn.Status, libIn.Error)]
    /\ UNCHANGED libIn

InitToError ==
    /\ InitIdleLabel
    /\ InitIdleDriver
    /\ InitIdleMulti /\ InitIdleNonce /\ InitIdleDNS /\ InitIdleNBA /\ InitIdleConc
    /\ InitIdleClient
    /\ libIn \in [op : {"ToError"}, Status : ToErrorStatuses, Error : ToErrorErrs]
    /\ libOut = NotCalledYet
    /\ entries = EmptyMap
    /\ now = 0
    /\ config = defaultConfig

NextToError == DoToError /\ PureFrame

SpecToError == InitToError /\ [][NextToError]_vars

----------------------------------------------------------------------------
(* The tokens once more: ValidateCTP (part_001), what ValidateNBA makes of *)
(* a token of another kind, and the messages the HMAC labels sign.  The    *)
(* ciphertext of a CTP payload is the key it was sealed with followed by   *)
(* the payload, which is its timestamp; it is text of the base64 alphabet. *)

CTPWindow == 30        \* payload.Timestamp < now-30 || payload.Timestamp > now+30

\* Encrypt and base64.RawURLEncoding.EncodeToString, for a CTP payload
SealedCTP(key, timestamp) == key \o Dec(timestamp)

\* ValidateCTP, evaluated when time.Now().Unix() is clock: "nil" or the error
ValidateCTP(token, key, clock) ==
    IF Len(token) < Len(PrefixCTP) THEN "invalid CTP format"
    ELSE
    LET encoded == SubSeq(token, Len(PrefixCTP) + 1, Len(token))
    IN  IF \E i \in 1..Len(encoded) : encoded[i] \notin Range(B64Alphabet)
        THEN "decode"
        ELSE IF \/ Len(encoded) < Len(key)
                \/ SubSeq(encoded, 1, Len(key)) # key
        THEN "decrypt"
        ELSE
        LET payload == ParseInt(SubSeq(encoded, Len(key) + 1, Len(encoded)))
        IN  IF payload.err # "nil" THEN "unmarshal"
            ELSE IF payload.value < clock - CTPWindow \/ payload.value > clock + CTPWindow
            THEN "token expired or future-dated"
            ELSE "nil"

\* generateAuthToken: the message it signs
AuthMessage(operation, resource, key, namespace, timestamp) ==
    operation \o <<"|">> \o resource \o <<"|">> \o key \o <<"|">> \o namespace
        \o <<"|">> \o Dec(timestamp)

----------------------------------------------------------------------------
(* Specification of the tokens: CTP and NBA tokens under their own and     *)
(* under other prefixes, and pairs of request tuples, some of whose fields *)
(* contain the separator, signed and validated at the same time.           *)

TokenPrefixes == {PrefixCTP, PrefixSig, PrefixAuth, <<"x", "x", "x", "x">>, <<"c", "t">>, <<>>}
CTPBodies ==
    {SealedCTP(k, t) : k \in NBASigningKeys, t \in {0, CTPWindow, CTPWindow + 1}}
    \cup {<<>>, <<"!">>, <<"1", "x">>}
CTPInputs ==
    [op : {"ValidateCTP"}, token : {p \o b : p \in TokenPrefixes, b \in CTPBodies},
     key : NBASigningKeys, clock : {0, 1}]
ForeignNBAInputs ==
    [op : {"ValidateNBA"},
     token : {p \o SubSeq(NewNBA(ns, NBAResource, NBAKey, k, 1), Len(PrefixSig) + 1,
                          Len(NewNBA(ns, NBAResource, NBAKey, k, 1))) :
                 p \in TokenPrefixes, ns \in NBANamespaces, k \in NBASigningKeys},
     namespace : NBANamespaces, key : NBASigningKeys, clock : {1, 1 + FutureSkew}]

BindOperations == {OpGet, OpPut}
BindNamespaces == {<<"a">>, <<"a", "|", "b">>}
BindResources == {<<"b">>, <<"c">>, <<"b", "|", "c">>}
BindKeys == {<<"d">>, <<"c", "|", "d">>}
BindTuples ==
    [operation : BindOperations, resource : BindResources, key : BindKeys,
     namespace : BindNamespaces]
BindInputs == [op : {"Bind"}, signed : BindTuples, checked : BindTuples]

DoValidateCTP ==
    /\ libIn.op = "ValidateCTP"
    /\ libOut.op = "none"
    /\ libOut' = [op |-> "ValidateCTP",
                  err |-> ValidateCTP(libIn.token, libIn.key, libIn.clock)]
    /\ UNCHANGED libIn

DoValidateForeignNBA ==
    /\ libIn.op = "ValidateNBA"
    /\ libOut.op = "none"
    /\ libOut' = [op |-> "ValidateNBA",
                  err |-> ValidateNBA(libIn.token, libIn.namespace, NBAResource, NBAKey,
                                      libIn.key, 0, libIn.clock)]
    /\ UNCHANGED libIn

\* a request is signed for one tuple, and the NBA token is validated for
\* another at the same second with the same key
SignAndValidate ==
    \E signingKey \in NBASigningKeys :
        LET s == libIn.signed
            c == libIn.checked
        IN  /\ libIn.op = "Bind"
            /\ libOut.op = "none"
            /\ libOut' =
                  [op |-> "Bind",
                   sameAuthMessage |->
                       AuthMessage(s.operation, s.resource, s.key, s.namespace, 1)
                           = AuthMessage(c.operation, c.resource, c.key, c.namespace, 1),
                   sameNBAMessage |->
                       NBAMessage(s.namespace, s.resource, s.key, 1)
                           = NBAMessage(c.namespace, c.resource, c.key, 1),
                   err |-> ValidateNBA(NewNBA(s.namespace, s.resource, s.key, signingKey, 1),
                                       c.namespace, c.resource, c.key, signingKey, 0, 1)]
            /\ UNCHANGED libIn

InitTokens ==
    /\ InitIdleLabel
    /\ InitIdleDriver
    /\ InitIdleMulti /\ InitIdleNonce /\ InitIdleDNS /\ InitIdleNBA /\ InitIdleConc
    /\ InitIdleClient
    /\ libIn \in CTPInputs \cup ForeignNBAInputs \cup BindInputs
    /\ libOut = NotCalledYet
    /\ entries = EmptyMap
    /\ now = 0
    /\ config = defaultConfig

NextTokens ==
    \/ (DoValidateCTP /\ PureFrame)
    \/ (DoValidateForeignNBA /\ PureFrame)
    \/ (SignAndValidate /\ PureFrame)

SpecTokens == InitTokens /\ [][NextTokens]_vars

-----------------------------------------------------------------------------
(* Properties of the write guards, under SpecSecure.                       *)

Writes == {"Set", "Delete", "SetEncrypted"}

Unprotected == config.enforceSecurity /\ ~tEncrypted

\* no query was issued for the call that returned, and the cache is as the
\* call found it
NothingDone == nQueries = 0 /\ lastSent = NoRequest /\ ~ret.cacheChanged

\* C1, as stated: with enforcement on and an unencrypted transport, Set,
\* Delete and SetEncrypted return the encrypted-transport-required error,
\* issue no Query and leave the cache untouched.
C1_WritesRefusedOnPlainTransport ==
    (pc = "returned" /\ ret.op \in Writes /\ Unprotected)
        => (ret.err = ErrEncryptedTransportRequired /\ NothingDone)

\* the error a write returns when enforcement is on and the transport is
\* unencrypted: the checks that come before the transport check win
C1_ExpectedError ==
    IF ret.op \in {"Set", "Delete"}
    THEN IF config.apiKey = <<>> THEN ErrUnauthorized ELSE ErrEncryptedTransportRequired
    ELSE IF ~config.hasEncryptionKey THEN "encryption key not configured"
         ELSE IF ~ret.dataOK THEN "encode data"
         ELSE ErrEncryptedTransportRequired

\* C1, amended: with enforcement on and an unencrypted transport no write
\* ever has a query in flight, and a write that returns has issued no Query,
\* left the cache untouched and returned the encrypted-transport-required
\* error unless an earlier check failed (Set, Delete: empty API key gives
\* Unauthorized; SetEncrypted: no encryption key, or data that cannot be
\* encoded).
C1_WritesRefusedBeforeDispatch ==
    /\ (pc \in {"query", "backoff"} /\ call.via \in Writes) => ~Unprotected
    /\ (pc = "returned" /\ ret.op \in Writes /\ Unprotected)
           => (NothingDone /\ ret.err = C1_ExpectedError)

C1_Witness ==
    /\ pc = "returned" /\ ret.op = "SetEncrypted" /\ Unprotected
    /\ config.hasEncryptionKey /\ ret.dataOK
    /\ ret.err = ErrEncryptedTransportRequired
    /\ entries # EmptyMap

\* C2: Set and Delete on a client with an empty API key return Unauthorized
\* (E002) whatever the transport and the request options are; no Query is
\* issued and the cache is unchanged.
C2_WritesNeedAPIKey ==
    /\ (pc \in {"query", "backoff"} /\ call.via \in {"Set", "Delete"}) => config.apiKey # <<>>
    /\ (pc = "returned" /\ ret.op \in {"Set", "Delete"} /\ config.apiKey = <<>>)
           => (ret.err = "E002" /\ NothingDone)

C2_Witness ==
    /\ pc = "returned" /\ ret.op = "Delete" /\ config.apiKey = <<>>
    /\ tEncrypted /\ ret.err = "E002"
    /\ entries # EmptyMap

HasAuthLabel(name) == \E i \in 1..Len(Split(name)) : HasPrefix(Split(name)[i], PrefixAuth)

\* C3: by default (enforcement on) no query name that carries an auth- label
\* is ever passed to an unencrypted transport, for every operation, the reads
\* Get, GetRaw and List included.
C3_NoAuthLabelInTheClear ==
    (lastSent # NoRequest /\ config.enforceSecurity /\ HasAuthLabel(lastSent.Name))
        => lastSent.encrypted

C3_Witness ==
    /\ lastSent # NoRequest /\ config.enforceSecurity /\ HasAuthLabel(lastSent.Name)
    /\ lastSent.via = "GetRaw" /\ ~lastSent.encrypted

-----------------------------------------------------------------------------
(* Properties of the query names, under SpecQuery.                         *)

Labels(name) == Split(name)

\* the strings the caller of the request lastSent supplied
CallerStrings ==
    Resources \cup Keys \cup {config.namespace}
    \cup {lastSent.rc.bdtToken, lastSent.rc.ctpToken, lastSent.rc.nbaToken}

KeyInNoCallerString == \A str \in CallerStrings : ~Contains(str, config.apiKey)

NoLabelHoldsKey ==
    \A i \in 1..Len(Labels(lastSent.Name)) : ~Contains(Labels(lastSent.Name)[i], config.apiKey)

\* C4, as stated: for every configuration with a non-empty API key that no
\* caller-supplied resource, key, namespace or token contains, no label of a
\* query name handed to the transport equals or contains the API key string.
C4_NoLabelContainsKey ==
    (lastSent # NoRequest /\ config.apiKey # <<>> /\ KeyInNoCallerString)
        => NoLabelHoldsKey

\* the key is not a string that label text can spell: it has a character
\* outside [a-z0-9-]
KeyNotLabelText == \E i \in 1..Len(config.apiKey) : ~LabelChar(config.apiKey[i])

PayloadLabelHoldsKey ==
    \E i \in 1..Len(Labels(lastSent.Name)) :
        /\ HasPrefix(Labels(lastSent.Name)[i], PrefixBase64)
        /\ Contains(Labels(lastSent.Name)[i], config.apiKey)

\* C4, amended: for every operation and every configuration whose non-empty
\* API key has a character outside [a-z0-9-] and occurs in no caller-supplied
\* resource, key, namespace or token, nor in the version, the tld or the
\* base64 text of the payload, no label of a query name handed to the
\* transport equals or contains the API key.
C4_NoLabelContainsUnspellableKey ==
    (/\ lastSent # NoRequest /\ config.apiKey # <<>> /\ KeyInNoCallerString
     /\ KeyNotLabelText
     /\ ~Contains(config.version, config.apiKey) /\ ~Contains(config.tld, config.apiKey)
     /\ ~PayloadLabelHoldsKey)
        => NoLabelHoldsKey

C4_Witness ==
    /\ lastSent # NoRequest /\ config.apiKey = <<"K">> /\ KeyInNoCallerString
    /\ ~PayloadLabelHoldsKey
    /\ lastSent.via = "Set"
    /\ HasAuthLabel(lastSent.Name)
    /\ config.namespace # <<>>

\* the tokens of the request lastSent, in the order NBA, CTP, BDT
TokensInOrder ==
    (IF lastSent.rc.nbaToken # <<>> THEN <<lastSent.rc.nbaToken>> ELSE <<>>)
    \o (IF lastSent.rc.ctpToken # <<>> THEN <<lastSent.rc.ctpToken>> ELSE <<>>)
    \o (IF lastSent.rc.bdtToken # <<>> THEN <<lastSent.rc.bdtToken>> ELSE <<>>)

\* C5: in every query name built for a request that carries security tokens
\* the token labels are the left-most labels, in the order NBA, CTP, BDT, and
\* the operation label comes after all of them; for every subset of the
\* three tokens.
C5_TokensLeftmost ==
    (lastSent # NoRequest /\ TokensInOrder # <<>>)
        => /\ Len(Labels(lastSent.Name)) > Len(TokensInOrder)
           /\ SubSeq(Labels(lastSent.Name), 1, Len(TokensInOrder)) = TokensInOrder
           /\ Labels(lastSent.Name)[Len(TokensInOrder) + 1] = lastSent.op

\* C6: whenever the client has an API key, the label that immediately
\* follows the operation label of a query name is the auth- label, for every
\* operation and every combination of tokens and payload label.
C6_AuthFollowsOperation ==
    (lastSent # NoRequest /\ config.apiKey # <<>>)
        => \E i \in 1..(Len(Labels(lastSent.Name)) - 1) :
               /\ Labels(lastSent.Name)[i] = lastSent.op
               /\ \A j \in 1..(i - 1) : Labels(lastSent.Name)[j] # lastSent.op
               /\ HasPrefix(Labels(lastSent.Name)[i + 1], PrefixAuth)

\* C7: every label of every query name the client dispatches is a valid DNS
\* label (1 to 63 octets of [a-z0-9-], not starting or ending with '-') and
\* the whole name is at most 253 octets.
C7_DispatchedNamesAreValid ==
    lastSent # NoRequest
        => /\ \A i \in 1..Len(Labels(lastSent.Name)) : ValidLabel(Labels(lastSent.Name)[i])
           /\ Len(lastSent.Name) <= 253

-----------------------------------------------------------------------------
(* Property of sanitizeLabel, under SpecLabel.                             *)

\* a character sanitizeLabel keeps as a letter or a digit
Alphanumeric(c) == ToLowerChar(c) \in LowerSet \cup DigitSet

\* C8: for every input s, sanitizeLabel(s) is either empty (only when s has
\* no character that survives as a letter or digit) or a valid DNS label:
\* length 1 to 63, first and last character in [a-z0-9], every character in
\* [a-z0-9-]; inputs whose form before truncation exceeds 63 included.
C8_SanitizedIsEmptyOrValid ==
    labelOut # NotCalled
        => IF labelOut = <<>>
           THEN \A i \in 1..Len(labelIn) : ~Alphanumeric(labelIn[i])
           ELSE ValidLabel(labelOut)

-----------------------------------------------------------------------------
(* Property of the cache, under SpecCache.                                 *)

\* C9: after Set(k, r, ttl) at time t0 with no later Set, Delete or Clear on
\* k, Get(k) returns r at every time strictly before t0 + ttl and a miss at
\* t0 + ttl and at every later time.
C9_FreshStrictlyBeforeExpiry ==
    (cacheOp.op = "get" /\ normalizeKey(cacheOp.key) \in DOMAIN lastSet)
        => IF now < lastSet[normalizeKey(cacheOp.key)].until
           THEN cacheOp.hit /\ cacheOp.response = lastSet[normalizeKey(cacheOp.key)].response
           ELSE ~cacheOp.hit

-----------------------------------------------------------------------------
(* Property of the entry a Get stores, under SpecClient.                   *)

\* the effective TTL by the stated rule
RuleTTL(respTTL, defaultTTL) ==
    IF respTTL > 0 /\ defaultTTL > 0
    THEN (IF respTTL < defaultTTL THEN respTTL ELSE defaultTTL)
    ELSE IF respTTL > 0 THEN respTTL
    ELSE defaultTTL

\* C10: the entry a Get stores lives for min(response TTL, default TTL) when
\* both are positive, for the positive one when only one is, and for the
\* default TTL otherwise.
C10_StoredTTLFollowsRule ==
    (pc = "returned" /\ ret.stored /\ config.cacheEnabled)
        => /\ GetCacheKey(config, ret.resource, ret.key) \in DOMAIN entries
           /\ entries[GetCacheKey(config, ret.resource, ret.key)].expiresAt - now
                  = RuleTTL(ret.response.TTL, config.defaultTTL)

-----------------------------------------------------------------------------
(* Further properties of the cache, under SpecCache.                       *)

\* C11: cache keys that differ only in letter case address the same entry:
\* every Set, Get and Delete returns what the same call with the key in
\* lower case returns and leaves the entries that call leaves, so a
\* sequence of calls behaves as if every key had been given in lower case;
\* entries live under lower-case keys only.
C11_KeysAreCaseInsensitive ==
    /\ cacheOp.op \in {"set", "get", "delete"} => cacheOp.asLower
    /\ \A k \in DOMAIN entries : k = ToLower(k)

C11_Witness ==
    /\ cacheOp.op = "get" /\ cacheOp.key = <<"f","o","o">> /\ cacheOp.hit
    /\ <<"F","O","O">> \notin DOMAIN entries
    /\ now > 0

\* C12: when MaxEntries > 0 the memory cache never holds more than
\* MaxEntries entries.
C12_AtMostMaxEntries ==
    config.maxEntries > 0 => Cardinality(DOMAIN entries) <= config.maxEntries

-----------------------------------------------------------------------------
(* Properties of cache population, invalidation and retry in the client,   *)
(* under SpecClient.                                                       *)

\* a response that was parsed without error and has a success status
ParsedSuccess(r) == r.Version # "" /\ r.Status \in {"ok", "success"}

\* C13: every cache entry holds a response that a transport query returned
\* without error, that was parsed without error and has a success status;
\* a Get that ends in a transport error, a parse error or a non-success
\* status leaves the entries of the cache as they were.
C13_CacheHoldsSuccessesOnly ==
    /\ [](\A k \in DOMAIN entries : ParsedSuccess(entries[k].response))
    /\ [][(pc = "query" /\ pc' = "returned" /\ ret'.op \in Vias
           /\ ~ParsedSuccess(ret'.response))
              => entries' = entries]_vars

C13_Witness ==
    /\ pc = "returned" /\ ret.op = "GetRaw" /\ ret.response.Status = "E010"
    /\ nQueries = 1
    /\ entries # EmptyMap

\* C14: once a Set or a Delete for (resource, key) has returned success the
\* cache holds no entry for the get fingerprint of (resource, key,
\* namespace, version); nothing enters the cache until the next call, and a
\* Get answers from the cache only when the cache holds the entry of its
\* fingerprint, so the next Get for that resource and key (without
\* skip_cache) issues a transport query.
C14_WriteInvalidatesGetEntry ==
    /\ []((pc = "returned" /\ ret.op \in {"Set", "Delete"} /\ ret.err = "nil")
              => GetCacheKey(config, ret.resource, ret.key) \notin DOMAIN entries)
    /\ [][(pc = "returned" => entries' = entries)
          /\ ((pc = "idle" /\ pc' = "returned" /\ ret'.fromCache)
                 => GetCacheKey(config, ret'.resource, ret'.key) \in DOMAIN entries)
          /\ ((pc = "idle" /\ pc' = "query" /\ call'.op = OpGet /\ ~call'.rc.skipCache)
                 => \/ ~config.cacheEnabled
                    \/ GetCacheKey(config, call'.resource, call'.key) \notin DOMAIN entries
                    \/ Expired(entries[GetCacheKey(config, call'.resource, call'.key)], now))]_vars

C14_Witness ==
    /\ pc = "returned" /\ ret.op = "Set" /\ ret.err = "nil" /\ ret.cacheChanged
    /\ ret.key = <<"q">>
    /\ config.cacheEnabled

RetryableStatus == {"E010", "E012", "E013"}

\* C17: when the response to a Get, Set, Delete or List carries a retryable
\* protocol status (E010, E012, E013) and retries remain, the client
\* dispatches the query again: a call returns such a response only after
\* MaxRetries additional transport attempts.
C17_RetryableStatusIsRetried ==
    (pc = "returned" /\ ret.response.Status \in RetryableStatus /\ ~ret.fromCache
     /\ config.maxRetries > 0)
        => nQueries = config.maxRetries + 1

\* C16, the part that holds at every state: fn is invoked at most
\* MaxRetries + 1 times; doWithRetry waits for a retry only after a retryable
\* error with fewer than MaxRetries retries made; once it has returned after
\* an error of fn, either it returns that last error, which is not retryable
\* or came with the retries exhausted, or the context was cancelled during
\* the wait and it returns the context's error with retries still left
RetryBounded ==
    /\ nQueries <= config.maxRetries + 1
    /\ pc = "backoff" =>
          /\ IsRetryable(fnErr)
          /\ nQueries = attempt
          /\ attempt <= config.maxRetries
    /\ (pc = "returned" /\ nQueries >= 1 /\ fnErr # "nil") =>
          \/ /\ ret.err = fnErr
             /\ ~IsRetryable(fnErr) \/ nQueries = config.maxRetries + 1
          \/ /\ ctxDone
             /\ ret.err = "context"
             /\ IsRetryable(fnErr)
             /\ nQueries <= config.maxRetries

\* C16, the part about steps: fn is invoked again only after a retryable
\* error with fewer than MaxRetries retries made, and the first success of fn
\* ends the call at once
ReinvokedOnlyToRetry ==
    /\ (nQueries >= 1 /\ nQueries' = nQueries + 1) =>
          /\ IsRetryable(fnErr)
          /\ nQueries <= config.maxRetries
    /\ (nQueries' = nQueries + 1 /\ fnErr' = "nil") => pc' = "returned"

FracLeq(a, b) == a[1] * b[2] <= b[1] * a[2]

\* the backoffs of the current call never decrease from one retry to the next
BackoffsNonDecreasing ==
    \A i \in 1..(Len(backoffs) - 1) : FracLeq(backoffs[i], backoffs[i + 1])

\* no backoff of the current call is above MaxBackoff
BackoffsCapped ==
    \A i \in 1..Len(backoffs) : FracLeq(backoffs[i], <<config.maxBackoff, 1>>)

\* C18: for a RetryConfig whose Multiplier is at least 1 and whose
\* InitialBackoff is not negative, the backoff before jitter,
\* min(InitialBackoff * Multiplier^(attempt-1), MaxBackoff), never decreases
\* from one attempt to the next; for every RetryConfig it is at most MaxBackoff
C18_BackoffMonotoneForGrowingMultiplier ==
    /\ BackoffsCapped
    /\ (config.multiplier[1] >= config.multiplier[2] /\ config.initialBackoff >= 0)
          => BackoffsNonDecreasing

\* C18 as the claim states it: for every RetryConfig the backoffs before
\* jitter never decrease and never exceed MaxBackoff
C18_BackoffMonotone == BackoffsCapped /\ BackoffsNonDecreasing

\* C18 witness: a call has waited twice, the second time for longer than the
\* first and for the capped value MaxBackoff
C18_Witness ==
    /\ Len(backoffs) >= 2
    /\ config.multiplier[1] > config.multiplier[2]
    /\ ~FracLeq(backoffs[2], backoffs[1])
    /\ backoffs[2] = <<config.maxBackoff, 1>>
    /\ config.initialBackoff * config.multiplier[1] > config.maxBackoff * config.multiplier[2]

\* C19: once the context of a call is cancelled, doWithRetry invokes fn no
\* more: not for the first attempt of a call made with a cancelled context,
\* and not after a backoff that elapses as the context is cancelled
C19_NoInvocationOnceCancelled == [][ctxDone => nQueries' <= nQueries]_vars

\* C20: a call whose context was cancelled before it completed returns the
\* context's error (cancelled or deadline exceeded) and leaves the cache as
\* it was when the call began, also when the cache holds an entry for the
\* request and when the transport answers despite the cancellation
C20_CancelledCallFailsAndKeepsCache ==
    (pc = "returned" /\ ctxDone) => (ret.err = "context" /\ ~ret.cacheChanged)

\* C15: a Get(k) that starts after Set(k, r, ttl) has returned, and returns
\* before the TTL elapses and before any later Set, Delete or Clear,
\* returns r, whatever other Gets run at the same time
C15_GetAfterSetReturnsIt ==
    (cacheOp.op = "get" /\ cacheOp.inForce)
        => (cacheOp.hit /\ cacheOp.response = cacheOp.expected)

\* the first member that answers, 0 if none does
FirstOK(outs) ==
    IF \E i \in 1..Len(outs) : outs[i] = "ok"
    THEN CHOOSE i \in 1..Len(outs) :
             outs[i] = "ok" /\ \A j \in 1..(i - 1) : outs[j] = "err"
    ELSE 0

\* C21: Multi.Query queries its members in order, returns the response of
\* the first member that succeeds and queries no member after it; it returns
\* an error only when every member failed, and then the error of the last
\* member of the list
C21_FirstSuccessElseLastError ==
    multiOut.op = "Query" =>
        LET r == multiOut.result
            first == FirstOK(multiOut.outs)
        IN  /\ first # 0 => (r.resp = first /\ r.queried = first /\ r.err = 0)
            /\ first = 0 => (r.resp = 0 /\ r.queried = Len(members))
            /\ r.err # 0 => (first = 0 /\ r.err = Len(members))
            /\ (first = 0 /\ Len(members) > 0) => r.err = Len(members)

\* C21 witness: the first two of three members failed and the last answered;
\* the response is the third member's
C21_Witness ==
    /\ multiOut.op = "Query"
    /\ Len(members) = 3
    /\ multiOut.outs = <<"err", "err", "ok">>
    /\ multiOut.result.resp = 3

\* every member transport reports that it is encrypted
AllMembersEncrypted == \A i \in 1..Len(members) : members[i].encrypted

\* a client over a Multi with a cleartext member refuses authenticated writes
\* under security enforcement, before any query
CleartextMemberRefusesWrites ==
    (/\ pc = "returned"
     /\ ret.op \in {"Set", "Delete"}
     /\ Len(members) >= 2
     /\ ~AllMembersEncrypted
     /\ config.apiKey # <<>>
     /\ config.enforceSecurity)
        => (ret.err = ErrEncryptedTransportRequired /\ nQueries = 0)

\* C22: for every non-empty list of member transports Multi.IsEncrypted
\* returns true if and only if every member's IsEncrypted returns true, and
\* for the empty list it returns false; a client built over a Multi with a
\* cleartext member refuses authenticated writes under security enforcement
C22_EncryptedIffAllOfNonEmpty ==
    /\ multiOut.op = "IsEncrypted" =>
          (multiOut.result <=> (Len(members) > 0 /\ AllMembersEncrypted))
    /\ CleartextMemberRefusesWrites

\* C22 as the claim states it, for every list of member transports:
\* Multi.IsEncrypted returns true if and only if every member's does
C22_EncryptedIffAll ==
    multiOut.op = "IsEncrypted" => (multiOut.result <=> AllMembersEncrypted)

\* C22 witness: a Multi of an encrypted and a cleartext member has reported
\* that it is not encrypted, and the client over it has refused a Set
C22_Witness ==
    /\ multiOut.op = "IsEncrypted"
    /\ ~multiOut.result
    /\ Len(members) = 2
    /\ members[1].encrypted
    /\ ~members[2].encrypted
    /\ pc = "returned"
    /\ ret.op = "Set"
    /\ ret.err = ErrEncryptedTransportRequired

\* C23: under one EncryptionContext no two Encrypt calls that return a
\* ciphertext use the same counter prefix, however many calls are made, and
\* the call whose increment wraps the counter to zero returns nonce-exhausted
\* without encrypting
C23_CounterPrefixesNeverRepeat ==
    /\ \A i, j \in 1..Len(nonces) : i # j => nonces[i][1] # nonces[j][1]
    /\ (encOut.op = "Encrypt" /\ counter = 0) =>
          (encOut.err = ErrNonceExhausted /\ encOut.nonce = <<>>)

\* C24: a Get whose response is chunked (chunks > 1) fetches every chunk
\* index, verifies each piece and returns the concatenation of the pieces:
\* a Get that returns a chunked response without error has queried the
\* transport at least once per chunk
C24_ChunkedGetFetchesEveryChunk ==
    (/\ pc = "returned"
     /\ ret.op \in Vias
     /\ ret.err = "nil"
     /\ ~ret.fromCache
     /\ ret.response.Chunks > 1)
        => nQueries >= ret.response.Chunks

\* C25: for a parsed response without data, Get yields the error of the
\* response's status when the status is not a success, and NotFound only
\* when the status is a success
C25_NoDataYieldsStatusError ==
    (/\ pc = "returned"
     /\ ret.op = "Get"
     /\ ret.response.Version # ""
     /\ ~ret.response.HasData)
        => ret.err = IF IsSuccess(ret.response) THEN ErrNotFound
                     ELSE ToError(ret.response)

\* the transport's last answer was a text without a version field
VersionlessAnswer == lastSent.answer.kind = "text" /\ lastSent.answer.v = ""

\* no response without a version is in the cache or returned as a success
VersionlessNeverAccepted ==
    /\ \A k \in DOMAIN entries : entries[k].response.Version # ""
    /\ (pc = "returned" /\ ret.op # "none" /\ ret.err = "nil" /\ ~ret.fromCache
        /\ nQueries >= 1)
          => ret.response.Version # ""

\* C26: a response text without a version field is a parse error: the
\* operation that received it fails at once with the error of ParseResponse,
\* is not retried and stores nothing; the error is the invalid-response error
\* unless a d field of the text fails to decode, which ends the parse with
\* the decoding error before the version is looked at
C26_VersionlessFailsTheCall ==
    /\ VersionlessNeverAccepted
    /\ VersionlessAnswer =>
          /\ pc = "returned"
          /\ ret.err = fnErr
          /\ ~ret.stored
          /\ fnErr = IF lastSent.answer.d /\ ~lastSent.answer.decodes
                     THEN "decode data" ELSE ErrInvalidResponse

\* C26 as the claim states it: whatever other fields are present, the error
\* of a text without a version is the invalid-response error
C26_VersionlessIsInvalidResponse ==
    VersionlessAnswer =>
        (pc = "returned" /\ ret.err = ErrInvalidResponse /\ ~ret.stored)

\* C26 witness: a Get on a client that retries has received a text without a
\* version but with status, ttl and data, and has failed with the
\* invalid-response error after a single query
C26_Witness ==
    /\ VersionlessAnswer
    /\ lastSent.answer.s = "ok" /\ lastSent.answer.d /\ lastSent.answer.decodes
    /\ config.maxRetries > 0
    /\ pc = "returned"
    /\ ret.op = "Get"
    /\ ret.err = ErrInvalidResponse
    /\ nQueries = 1

\* what a returned Get says about the cache: a cached response comes from a
\* call without skip_cache, is the unexpired entry of its fingerprint and
\* cost no query; a Get with skip_cache has queried the transport and has
\* neither read, written nor changed the cache
GetHonoursSkipCache ==
    (pc = "returned" /\ ret.op \in Vias) =>
        /\ ret.fromCache =>
              /\ ~ret.rc.skipCache
              /\ nQueries = 0
              /\ ~ret.cacheChanged
              /\ ClientCacheHit(config, entries,
                                GetCacheKey(config, ret.resource, ret.key), now)
              /\ entries[GetCacheKey(config, ret.resource, ret.key)].response
                     = ret.response
        /\ (ret.rc.skipCache /\ ret.err # "encryption key not configured") =>
              /\ nQueries >= 1
              /\ ~ret.fromCache
              /\ ~ret.stored
              /\ ~ret.cacheChanged

\* a Get without skip_cache goes to the transport only if the cache has no
\* unexpired entry for its fingerprint; a Get with skip_cache in flight
\* leaves the cache as it is
GetQueriesOnlyOnMiss ==
    /\ (pc = "idle" /\ pc' = "query" /\ call'.op = OpGet /\ ~call'.rc.skipCache) =>
          ~ClientCacheHit(config, entries,
                          GetCacheKey(config, call'.resource, call'.key), now)
    /\ (pc # "idle" /\ call.op = OpGet /\ call.rc.skipCache) => entries' = entries

\* C30: a Get without skip_cache that finds an unexpired cache entry for its
\* fingerprint returns that entry without any transport query; a Get with
\* skip_cache always queries the transport and neither reads from nor writes
\* to the cache, which it leaves unchanged
C30_CacheHitOrSkip == []GetHonoursSkipCache /\ [][GetQueriesOnlyOnMiss]_vars

\* C30 witness: a Get with skip_cache has queried the transport and returned
\* its answer while the cache held, and still holds, an unexpired entry with
\* another response for the same fingerprint
C30_Witness ==
    /\ pc = "returned"
    /\ ret.op = "GetRaw"
    /\ ret.rc.skipCache
    /\ nQueries = 1
    /\ ret.err = "nil"
    /\ ClientCacheHit(config, entries, GetCacheKey(config, ret.resource, ret.key), now)
    /\ entries[GetCacheKey(config, ret.resource, ret.key)].response # ret.response

\* the smallest non-zero value of a list of TTLs, 0 if there is none
SmallestNonZero(ttls) ==
    LET nz == {ttls[i] : i \in 1..Len(ttls)} \ {ZeroTTL}
    IN  IF nz = {} THEN ZeroTTL ELSE CHOOSE t \in nz : \A u \in nz : Uint32Leq(t, u)

\* C27: the TTL parseDNSResponse reports is the smallest non-zero TTL among
\* the answer records, whatever their order, and zero only when no record
\* has a non-zero TTL
C27_TTLIsSmallestNonZero ==
    dnsOut.op # "none" /\ dnsOut.kind = "response"
        => dnsOut.TTL = SmallestNonZero(dnsOut.ttls)

\* C28: parseDNSResponse rejects a message shorter than 12 bytes with an
\* error, and for every other byte string it terminates and returns a
\* response without reading an index at or beyond the message length
C28_ParserStaysInBounds ==
    dnsOut.op # "none" =>
        /\ Len(dnsIn) < 12 <=> dnsOut.kind = "error"
        /\ Len(dnsIn) >= 12 =>
              /\ dnsOut.kind = "response"
              /\ \A r \in dnsOut.reads : r < Len(dnsIn)

\* C28 witness: a message with a question and two answers was cut inside
\* the fixed fields of its second answer; the parser has returned the first
\* record only, having read no further than the message goes
C28_Witness ==
    /\ dnsOut.op # "none"
    /\ dnsOut.kind = "response"
    /\ dnsIn[6] = 1 /\ dnsIn[8] = 2
    /\ Len(dnsOut.Records) = 1
    /\ Len(dnsIn) - 1 \in dnsOut.reads
    /\ \E r \in dnsOut.reads : r + 10 > Len(dnsIn) /\ ByteAt(dnsIn, r) = PointerFlag

\* the token carries the tag of what the validator is called with: it was
\* signed with the same key over the same namespace, and its tag is intact
TagMatches ==
    /\ nbaIn.made.shape.kind \in {"NewNBA", "intact", "plus", "zero"}
    /\ nbaIn.made.signingKey = nbaIn.signingKey
    /\ nbaIn.made.namespace = nbaIn.namespace

\* now - maxAge <= ts <= now + 30
TimestampInWindow ==
    /\ nbaIn.clock - nbaIn.maxAge <= nbaIn.made.timestamp
    /\ nbaIn.made.timestamp <= nbaIn.clock + 30

\* C29: ValidateNBA accepts a token sig-<tag>-t-<ts> exactly when it is well
\* formed, ts lies between now - maxAge and now + 30, and the tag is the one
\* recomputed over namespace|resource|key|ts with the signing key; a token
\* of NewNBA validated within the window is accepted, and a token with one
\* tag character altered is rejected, with signature mismatch when its
\* timestamp is within the window
C29_ValidateNBA ==
    nbaOut.op = "ValidateNBA" /\ HasPrefix(nbaIn.token, PrefixSig) =>
        /\ nbaOut.err = "nil" <=> TagMatches /\ TimestampInWindow
        /\ nbaIn.made.shape.kind = "altered" =>
              /\ nbaOut.err # "nil"
              /\ TimestampInWindow => nbaOut.err = "signature mismatch"

\* C29 witness: a token of NewNBA was validated later, within maxAge, with
\* the arguments it was made with, and was accepted
C29_Witness ==
    /\ nbaOut.op = "ValidateNBA"
    /\ nbaIn.made.shape.kind = "NewNBA"
    /\ nbaIn.made.timestamp < nbaIn.clock
    /\ nbaOut.err = "nil"

\* a Set or Delete that has returned an error has left the cache as it was
\* when the call began
FailedWriteKeepsCache ==
    (pc = "returned" /\ ret.op \in {"Set", "Delete"} /\ ret.err # "nil")
        => ~ret.cacheChanged

\* the step in which a Set or Delete returns an error changes no entry,
\* nothing changes the cache before the next call, and a Get (without
\* skip_cache) that finds the unexpired entry of its fingerprint returns it
EntrySurvivesFailedWrite ==
    /\ (pc' = "returned" /\ ret'.op \in {"Set", "Delete"} /\ ret'.err # "nil")
          => entries' = entries
    /\ (pc = "idle" /\ pc' = "query" /\ call'.op = OpGet /\ ~call'.rc.skipCache)
          => ~ClientCacheHit(config, entries,
                             GetCacheKey(config, call'.resource, call'.key), now)
    /\ (pc = "idle" /\ pc' = "returned" /\ ret'.op \in Vias /\ ~ret'.rc.skipCache
        /\ ret'.err # "encryption key not configured"
        /\ ClientCacheHit(config, entries,
                          GetCacheKey(config, ret'.resource, ret'.key), now))
          => /\ ret'.fromCache
             /\ ret'.response
                   = entries[GetCacheKey(config, ret'.resource, ret'.key)].response

\* C31: a Set or Delete that fails (refused before dispatch, transport
\* error, parse error, or a response with a non-success status) leaves the
\* cache unchanged, so an entry cached for the same resource and key before
\* the call is still returned by the next Get
C31_FailedWriteLeavesCache == []FailedWriteKeepsCache /\ [][EntrySurvivesFailedWrite]_vars

\* C31 witness: a Set was answered with a non-success status and returned
\* its error while the cache holds the entry of its resource and key
C31_Witness ==
    /\ pc = "returned" /\ ret.op = "Set" /\ ret.err = "E004"
    /\ nQueries >= 1
    /\ ClientCacheHit(config, entries, GetCacheKey(config, ret.resource, ret.key), now)

\* C32: under concurrent use of one client, after a Set or Delete for
\* (resource, key) has returned success no Get for that resource and key
\* that starts later is served from the cache a response that was fetched
\* from the transport before that write was dispatched
C32_NoStaleEntryAfterWrite ==
    hist.op # "none" /\ hist.served.op = "GetRaw"
        => ~(hist.served.fetched < hist.served.written)

\* C33: once SetEncrypted for (resource, key) has returned success the cache
\* holds no entry for the get fingerprint of that resource and key, as after
\* a successful Set, so that the next GetEncrypted or Get (without
\* skip_cache) issues a transport query and returns no response cached
\* before the write
C33_SetEncryptedInvalidates ==
    (pc = "returned" /\ ret.op = "SetEncrypted" /\ ret.err = "nil")
        => ~ClientCacheHit(config, entries,
                           GetCacheKey(config, ret.resource, ret.key), now)

\* C34: SetEncrypted on a client with an empty API key returns Unauthorized
\* (E002), as Set does, and dispatches no put query: no write query without
\* an auth label reaches a transport
C34_SetEncryptedNeedsAPIKey ==
    /\ (pc \in {"query", "backoff"} /\ call.via = "SetEncrypted") => config.apiKey # <<>>
    /\ (pc = "returned" /\ ret.op = "SetEncrypted" /\ config.apiKey = <<>>)
           => (ret.err = "E002" /\ NothingDone)
    /\ (lastSent.op = OpPut) => HasAuthLabel(lastSent.Name)

\* C35: two Gets of one client that share a cache key build the same query
\* name (the auth label set aside), so that a cache hit only ever returns a
\* response to the same query
C35_SameCacheKeySameQuery ==
    (libOut.op = "GetRaw" /\ libOut.first.cacheKey = libOut.second.cacheKey)
        => WithoutAuthLabel(libOut.first.name) = WithoutAuthLabel(libOut.second.name)

\* C36: ToError() returns nil if and only if IsSuccess() is true; no status
\* other than ok and success (E000, empty and unknown statuses included)
\* makes ToError() return nil
C36_NilErrorIffSuccess ==
    libOut.op = "ToError" => (libOut.err.kind = "nil" <=> libOut.success)

\* C37: ToError() is total: for every status and every err string of any
\* length it returns nil or an error value and never aborts with an
\* out-of-range access
C37_ToErrorIsTotal ==
    libOut.op = "ToError" => libOut.err.kind \in {"nil", "error"}

\* C38: Multi.Query returns either a response with a nil error or a nil
\* response with an error, for every list of members, the empty list
\* included; never a nil response together with a nil error
C38_ResponseOrError ==
    multiOut.op = "Query" =>
        (multiOut.result.resp # 0) # (multiOut.result.err # 0)

\* C39: token validation accepts only tokens of its own kind: ValidateCTP
\* rejects every token that does not start with ctp-, and ValidateNBA every
\* token that does not start with sig-, whatever follows the first four
\* characters
C39_ForeignPrefixRejected ==
    /\ (libOut.op = "ValidateCTP" /\ ~HasPrefix(libIn.token, PrefixCTP))
          => libOut.err # "nil"
    /\ (libOut.op = "ValidateNBA" /\ ~HasPrefix(libIn.token, PrefixSig))
          => libOut.err # "nil"

\* the fields the auth token signs, and those the NBA signature signs
AuthTuple(t) == <<t.operation, t.resource, t.key, t.namespace>>
NBATuple(t) == <<t.namespace, t.resource, t.key>>

\* C40: for a fixed key and timestamp two different tuples (operation,
\* resource, key, namespace) of the auth token, or (namespace, resource,
\* key) of the NBA signature, never yield the same signed message, and a
\* token issued for one tuple is not accepted by ValidateNBA for another,
\* also when field values contain the separator '|'
C40_LabelsBindTheTuple ==
    libOut.op = "Bind" =>
        /\ AuthTuple(libIn.signed) # AuthTuple(libIn.checked) => ~libOut.sameAuthMessage
        /\ NBATuple(libIn.signed) # NBATuple(libIn.checked)
              => (~libOut.sameNBAMessage /\ libOut.err # "nil")

====
